---- MODULE Spec2Model ----
(***************************************************************************)
(* Retrieval-and-orchestration pipeline of the support agent:              *)
(*   - the Semantic Cache (src/src/cache/semantic_cache.py)                *)
(*   - the per-request workflow graph (src/src/agents/graph.py) with its   *)
(*     node functions (responder.py, escalation.py, router.py)             *)
(*                                                                         *)
(* Scores, confidences and similarities are hundredths (0.7 is 70).        *)
(* Sequences are 1-based: position i here is Python position i-1.          *)
(***************************************************************************)
EXTENDS Integers, Sequences, FiniteSets, TLC

----------------------------------------------------------------------------
(* Bounds of the model *)

\* requests handled one after another by process()
MaxRequests == 2
\* the clock (time.time(), in TTL units) stops advancing here
MaxTime == 2
\* ttl_seconds of the cache (CACHE_TTL_SECONDS is 3600 by default), scaled
TTL == 1
\* largest max_entries a cache is constructed with
MaxEntries == 2
\* the batch that capacity eviction removes on top of the overflow
\* (the literal 100 of put), scaled together with max_entries
EvictBatch == 1
\* direct cache operations in the cache-only specification
MaxOps == 4

----------------------------------------------------------------------------
(* Program constants *)

MAX_RETRIES == 2
CONFIDENCE_THRESHOLD == 70
ESCALATION_THRESHOLD == 50
\* the literal 0.3 of _quality_decision
RETRY_FLOOR == 30
\* the literal 0.7 of _finalize
CACHE_MIN_CONFIDENCE == 70
\* InjectionDefense.block_threshold
BLOCK_THRESHOLD == 70
SEMANTIC_CACHE_THRESHOLD == 90
\* the literal 0.98 of put
UPDATE_THRESHOLD == 98
\* metadata.get("confidence", 0.9) of _cache_check
DEFAULT_CACHED_CONFIDENCE == 90
\* stands for a metadata dict without the "confidence" key
NoConfidence == -1

----------------------------------------------------------------------------
(* The embedding collaborator and the similarity index *)

\* Query texts are 1..4.  embed_query followed by _normalize gives a unit
\* vector; unit vectors are represented by their angle on a line, and the
\* inner product of two of them by a value that falls with the angle
\* between them: 100 for the same vector, 98 (texts 1 and 2), 90 (1 and 3)
\* and 89 (3 and 4) for the pairs the thresholds separate.
Queries == {1, 2, 3, 4}
EmbedTable == <<0, 2, 10, 21>>
\* the texts that requests ask about: pairs at 90 (a hit at the threshold)
\* and at 89 (a miss)
RequestQueries == {1, 3, 4}
Embed(q) == EmbedTable[q]

Abs(x) == IF x < 0 THEN -x ELSE x

\* inner product of two normalized embeddings (IndexFlatIP metric)
Sim(a, b) == 100 - Abs(a - b)

\* faiss index.search(x, 1): the position of the best vector, the first one
\* among equals; 0 (faiss: -1) when the index holds no vector
BestIdx(index, qe) ==
    IF index = <<>> THEN 0
    ELSE CHOOSE i \in 1..Len(index) :
            \A j \in 1..Len(index) :
                \/ Sim(index[j], qe) < Sim(index[i], qe)
                \/ (Sim(index[j], qe) = Sim(index[i], qe) /\ i <= j)

IndexSearch(index, qe) ==
    LET i == BestIdx(index, qe)
    IN [idx |-> i, score |-> IF i = 0 THEN -1000 ELSE Sim(index[i], qe)]

----------------------------------------------------------------------------
(* Semantic Cache *)

\* a response text: what produced it, whether it is shorter than 20
\* characters, whether it carries anonymization tokens, and for a handoff
\* notice the kind of the partial answer it embeds and the ticket
\* identifier it names.  token_of is the request whose PII values the
\* tokens in the text stand for, restored_of the request whose PII values
\* the text holds after a restore (0: none).
NoTicket == 0

NoResponse == [kind |-> "", short |-> TRUE, tokens |-> FALSE, partial |-> "",
               ticket |-> NoTicket, token_of |-> 0, restored_of |-> 0]

Generated(short, tokens, token_of) ==
    [kind |-> "generated", short |-> short, tokens |-> tokens, partial |-> "",
     ticket |-> NoTicket, token_of |-> IF tokens THEN token_of ELSE 0,
     restored_of |-> 0]

CacheEntry(query, response, embedding, metadata, t) ==
    [query |-> query, response |-> response, embedding |-> embedding,
     metadata |-> metadata, created_at |-> t, hits |-> 0]

\* SemanticCache.__init__
NewCache(max_entries) ==
    [entries |-> <<>>, index |-> <<>>, max_entries |-> max_entries,
     total_hits |-> 0, total_misses |-> 0]

\* variant of is_expired: an entry counts as expired from the moment its
\* age reaches the TTL
is_expired_at_ttl(e, t) == t - e.created_at >= TTL

\* CacheEntry.is_expired
is_expired(e, t) == t - e.created_at > TTL

EmbeddingsOf(es) == [i \in 1..Len(es) |-> es[i].embedding]

\* SemanticCache._cleanup_expired: the index is rebuilt only when some
\* entry is dropped and some entry is kept
cleanup_expired(c, t) ==
    IF c.entries = <<>> THEN c
    ELSE LET valid == SelectSeq(c.entries, LAMBDA e : ~is_expired(e, t))
         IN IF Len(valid) < Len(c.entries)
            THEN [c EXCEPT !.entries = valid,
                           !.index = IF valid # <<>> THEN EmbeddingsOf(valid)
                                     ELSE @]
            ELSE c

NoMeta == [confidence |-> NoConfidence]

\* entry_age of a lookup that selected no entry
NoAge == -1

\* variant of Miss: None is returned without the miss being counted
MissUncounted(c) ==
    [cache |-> c, outcome |-> "miss",
     response |-> NoResponse, metadata |-> NoMeta, similarity_score |-> 0,
     original_query |-> 0, entry_age |-> NoAge]

\* get returning None.  entry_age is not part of what get returns: it
\* records the age of the entry the lookup selected (entries[best_idx] of
\* a match at or above the threshold), for the properties of expiry.
Miss(c) ==
    [cache |-> [c EXCEPT !.total_misses = @ + 1], outcome |-> "miss",
     response |-> NoResponse, metadata |-> NoMeta, similarity_score |-> 0,
     original_query |-> 0, entry_age |-> NoAge]

Raised(c) ==
    [cache |-> c, outcome |-> "raise",
     response |-> NoResponse, metadata |-> NoMeta, similarity_score |-> 0,
     original_query |-> 0, entry_age |-> NoAge]

\* SemanticCache.get.  embedOk is whether embed_query returns; outcome
\* "raise" is an exception leaving get (the embedding call failing, or
\* entries[best_idx] out of range).
cache_get(c, query, t, embedOk) ==
    IF c.entries = <<>> THEN Miss(c)
    ELSE
    LET c1 == IF is_expired(c.entries[1], t) THEN cleanup_expired(c, t) ELSE c
    IN  IF c1.entries = <<>> THEN Miss(c1)
        ELSE IF ~embedOk THEN Raised(c1)
        ELSE
        LET found == IndexSearch(c1.index, Embed(query))
        IN  IF found.idx # 0 /\ found.score >= SEMANTIC_CACHE_THRESHOLD
            THEN IF found.idx > Len(c1.entries) THEN Raised(c1)
                 ELSE LET entry == c1.entries[found.idx]
                      IN IF ~is_expired(entry, t)
                         THEN [cache |-> [c1 EXCEPT
                                   !.entries[found.idx].hits = @ + 1,
                                   !.total_hits = @ + 1],
                               outcome |-> "hit",
                               response |-> entry.response,
                               metadata |-> entry.metadata,
                               similarity_score |-> found.score,
                               original_query |-> entry.query,
                               entry_age |-> t - entry.created_at]
                         ELSE [Miss(c1) EXCEPT
                                   !.entry_age = t - entry.created_at]
            ELSE Miss(c1)

Drop(s, n) == IF n >= Len(s) THEN <<>> ELSE SubSeq(s, n + 1, Len(s))

\* variant of evict_for_capacity: only the expiry cleanup, no batch eviction
evict_for_capacity_expiry_only(c, t) ==
    IF Len(c.entries) >= c.max_entries THEN cleanup_expired(c, t) ELSE c

\* the capacity branch of put: lazy expiry cleanup, then batch eviction of
\* the head of the list; the index is rebuilt only when entries remain
evict_for_capacity(c, t) ==
    IF Len(c.entries) >= c.max_entries
    THEN LET c1 == cleanup_expired(c, t)
         IN IF Len(c1.entries) >= c1.max_entries
            THEN LET remove_count == Len(c1.entries) - c1.max_entries + EvictBatch
                     kept == Drop(c1.entries, remove_count)
                 IN [c1 EXCEPT !.entries = kept,
                                !.index = IF kept # <<>> THEN EmbeddingsOf(kept)
                                          ELSE @]
            ELSE c1
    ELSE c

\* SemanticCache.put
cache_put(c, query, response, metadata, t, embedOk) ==
    IF ~embedOk THEN [cache |-> c, outcome |-> "raise"]
    ELSE
    LET qe == Embed(query)
        found == IndexSearch(c.index, qe)
    IN  IF c.entries # <<>> /\ found.idx # 0 /\ found.score >= UPDATE_THRESHOLD
        THEN IF found.idx > Len(c.entries)
             THEN [cache |-> c, outcome |-> "raise"]
             ELSE [cache |-> [c EXCEPT
                       !.entries[found.idx].response = response,
                       !.entries[found.idx].metadata = metadata,
                       !.entries[found.idx].created_at = t],
                   outcome |-> "updated"]
        ELSE LET c1 == evict_for_capacity(c, t)
             IN [cache |-> [c1 EXCEPT
                       !.entries = Append(@, CacheEntry(query, response, qe, metadata, t)),
                       !.index = Append(@, qe)],
                 outcome |-> "inserted"]

----------------------------------------------------------------------------
(* Request state (AgentState) and the node functions of the graph *)

ReasonNone == ""
ReasonSecurity == "Security: Potential prompt injection detected"
ReasonLowConfidence == "Low confidence"
ReasonUrgent == "High urgency or negative sentiment detected"
ReasonManual == "Manual escalation"

Min(a, b) == IF a < b THEN a ELSE b
Max(a, b) == IF a > b THEN a ELSE b

UserMessage == [role |-> "user", pii_tokens |-> FALSE]
AssistantMessage == [role |-> "assistant", pii_tokens |-> FALSE]

\* create_initial_state, with the defaults of AgentState.  context_overlap
\* is the share (percent) of the query's words found in the retrieved
\* context, which _calculate_confidence derives from the query and the
\* retrieval results.
create_initial_state(query) ==
    [messages |-> <<UserMessage>>,
     current_query |-> [id |-> query, anonymized |-> FALSE, token_of |-> 0],
     urgency |-> 50, sentiment |-> 50, urgent_word |-> FALSE,
     retrieval_results |-> <<>>, context_overlap |-> 0,
     response |-> NoResponse, confidence |-> 0,
     retry_count |-> 0, should_escalate |-> FALSE,
     escalation_reason |-> ReasonNone, cache_hit |-> FALSE]

Last(s) == s[Len(s)]

\* the response of a blocked request
Refusal == [kind |-> "refusal", short |-> FALSE, tokens |-> FALSE,
            partial |-> "", ticket |-> NoTicket, token_of |-> 0,
            restored_of |-> 0]

\* variant of security_check: a score equal to the threshold is let through
security_check_above_only(s, r) ==
    IF r.score > BLOCK_THRESHOLD
    THEN [s EXCEPT !.should_escalate = TRUE,
                   !.escalation_reason = ReasonSecurity,
                   !.response = Refusal]
    ELSE IF r.pii
         THEN [s EXCEPT !.current_query.anonymized = TRUE,
                        !.current_query.token_of = r.n,
                        !.messages[Len(s.messages)].pii_tokens = TRUE]
         ELSE s

\* _security_check: r is the request input (injection score, PII present)
security_check(s, r) ==
    IF r.score >= BLOCK_THRESHOLD
    THEN [s EXCEPT !.should_escalate = TRUE,
                   !.escalation_reason = ReasonSecurity,
                   !.response = Refusal]
    ELSE IF r.pii
         THEN [s EXCEPT !.current_query.anonymized = TRUE,
                        !.current_query.token_of = r.n,
                        !.messages[Len(s.messages)].pii_tokens = TRUE]
         ELSE s

\* _should_block
should_block(s) ==
    IF s.should_escalate /\ s.escalation_reason = ReasonSecurity
    THEN "block" ELSE "continue"

\* variant of cache_check: the cached confidence is not read
cache_check_default_confidence(s, g) ==
    IF g.outcome = "hit"
    THEN [s EXCEPT !.response = g.response,
                   !.cache_hit = TRUE,
                   !.confidence = DEFAULT_CACHED_CONFIDENCE]
    ELSE s

\* _cache_check: g is what semantic_cache.get returned
cache_check(s, g) ==
    IF g.outcome = "hit"
    THEN [s EXCEPT !.response = g.response,
                   !.cache_hit = TRUE,
                   !.confidence = IF g.metadata.confidence = NoConfidence
                                  THEN DEFAULT_CACHED_CONFIDENCE
                                  ELSE g.metadata.confidence]
    ELSE s

\* _has_cache_hit
has_cache_hit(s) == IF s.cache_hit THEN "hit" ELSE "miss"

\* RouterAgent.route: c is the classification the pattern rules or the
\* classifier arrive at
route(s, c) ==
    [s EXCEPT !.urgency = c.urgency, !.sentiment = c.sentiment,
              !.urgent_word = c.urgent_word]

\* variant of should_escalate_immediately: the limits themselves escalate
should_escalate_immediately_inclusive(s) ==
    \/ s.urgency >= 90
    \/ s.sentiment <= 20
    \/ s.urgent_word

\* RouterAgent.should_escalate_immediately
should_escalate_immediately(s) ==
    \/ s.urgency > 90
    \/ s.sentiment < 20
    \/ s.urgent_word

\* _route_decision, the label and the state it leaves.  The edge functions
\* _route_decision and _quality_decision assign to the state object they are
\* given; the model reads these assignments as the source writes them, as
\* writes to the one state object the next node receives.
route_decision(s) ==
    IF should_escalate_immediately(s) THEN "immediate_escalate" ELSE "retrieve"

route_decision_state(s) ==
    IF should_escalate_immediately(s)
    THEN [s EXCEPT !.should_escalate = TRUE, !.escalation_reason = ReasonUrgent]
    ELSE s

\* RetrieverAgent.retrieve: o is what enhancement, hybrid search and
\* reranking return (the scores of the results, in their order)
retrieve(s, o) ==
    [s EXCEPT !.retrieval_results = o.results, !.context_overlap = o.overlap]

\* variant of calculate_confidence: no minimum under the confidence
calculate_confidence_no_floor(s) ==
    IF s.retrieval_results = <<>> THEN 40
    ELSE LET top_score == s.retrieval_results[1]
             source_bonus == Min(15, Len(s.retrieval_results) * 3)
             relevance_bonus == (s.context_overlap * 10) \div 100
         IN Min(95, top_score + source_bonus + relevance_bonus)

\* ResponderAgent._calculate_confidence
calculate_confidence(s) ==
    IF s.retrieval_results = <<>> THEN 40
    ELSE LET top_score == s.retrieval_results[1]
             source_bonus == Min(15, Len(s.retrieval_results) * 3)
             relevance_bonus == (s.context_overlap * 10) \div 100
             confidence == Min(95, top_score + source_bonus + relevance_bonus)
         IN Max(50, confidence)

Apology == [kind |-> "apology", short |-> FALSE, tokens |-> FALSE, partial |-> "",
            ticket |-> NoTicket, token_of |-> 0, restored_of |-> 0]

\* variant of respond: the except branch does not mark the escalation
respond_failure_unmarked(s, gen) ==
    IF gen.ok
    THEN LET s1 == [s EXCEPT !.response =
                        Generated(gen.short, gen.tokens, s.current_query.token_of)]
             s2 == [s1 EXCEPT !.confidence = calculate_confidence(s1)]
         IN [s2 EXCEPT !.messages = Append(@, AssistantMessage)]
    ELSE [s EXCEPT !.response = Apology,
                   !.confidence = 0]

\* ResponderAgent.respond: gen is the outcome of _invoke_with_rotation
respond(s, gen) ==
    IF gen.ok
    THEN LET s1 == [s EXCEPT !.response =
                        Generated(gen.short, gen.tokens, s.current_query.token_of)]
             s2 == [s1 EXCEPT !.confidence = calculate_confidence(s1)]
         IN [s2 EXCEPT !.messages = Append(@, AssistantMessage)]
    ELSE [s EXCEPT !.response = Apology,
                   !.confidence = 0,
                   !.should_escalate = TRUE]

\* variant of quality_decision: the retry bound is off by one
quality_decision_one_more(s) ==
    IF s.confidence >= CONFIDENCE_THRESHOLD THEN "good"
    ELSE IF s.retry_count <= MAX_RETRIES /\ s.confidence > RETRY_FLOOR THEN "retry"
    ELSE "escalate"

\* variant of quality_decision: no floor under the retried confidences
quality_decision_no_floor(s) ==
    IF s.confidence >= CONFIDENCE_THRESHOLD THEN "good"
    ELSE IF s.retry_count < MAX_RETRIES THEN "retry"
    ELSE "escalate"

\* variant of quality_decision: the retry counter is not consulted
quality_decision_unbounded(s) ==
    IF s.confidence >= CONFIDENCE_THRESHOLD THEN "good"
    ELSE IF s.confidence > RETRY_FLOOR THEN "retry"
    ELSE "escalate"

\* variant of quality_decision: a confidence equal to the threshold is not
\* good
quality_decision_above_only(s) ==
    IF s.confidence > CONFIDENCE_THRESHOLD THEN "good"
    ELSE IF s.retry_count < MAX_RETRIES /\ s.confidence > RETRY_FLOOR THEN "retry"
    ELSE "escalate"

\* _quality_decision, the label and the state it leaves
quality_decision(s) ==
    IF s.confidence >= CONFIDENCE_THRESHOLD THEN "good"
    ELSE IF s.retry_count < MAX_RETRIES /\ s.confidence > RETRY_FLOOR THEN "retry"
    ELSE "escalate"

\* variant of quality_decision_state: the counter is raised before the
\* bound is tested
quality_decision_state_eager(s) ==
    IF s.confidence >= CONFIDENCE_THRESHOLD THEN s
    ELSE [s EXCEPT !.retry_count = @ + 1]

quality_decision_state(s) ==
    IF quality_decision(s) = "retry"
    THEN [s EXCEPT !.retry_count = @ + 1]
    ELSE s

\* variant of quality_check: the length of the response is not looked at
quality_check_any_length(s) ==
    LET s2 == IF s.retrieval_results = <<>>
              THEN [s EXCEPT !.confidence = Min(@, 40)] ELSE s
    IN IF s2.confidence < ESCALATION_THRESHOLD
       THEN [s2 EXCEPT !.should_escalate = TRUE,
                       !.escalation_reason = ReasonLowConfidence]
       ELSE s2

\* _quality_check
quality_check(s) ==
    LET s1 == IF s.response.short
              THEN [s EXCEPT !.confidence = Min(@, 30)] ELSE s
        s2 == IF s1.retrieval_results = <<>>
              THEN [s1 EXCEPT !.confidence = Min(@, 40)] ELSE s1
    IN IF s2.confidence < ESCALATION_THRESHOLD
       THEN [s2 EXCEPT !.should_escalate = TRUE,
                       !.escalation_reason = ReasonLowConfidence]
       ELSE s2

\* _final_decision
final_decision(s) == IF s.should_escalate THEN "escalate" ELSE "complete"

\* EscalationHandler.get_priority
get_priority(s) ==
    IF s.escalation_reason = ReasonSecurity THEN "critical"
    ELSE IF s.urgency > 90 THEN "high"
    ELSE IF s.sentiment < 20 THEN "high"
    ELSE IF s.confidence < 30 THEN "medium"
    ELSE "normal"

\* prepare_escalation, the state it leaves: the handoff notice embeds the
\* response so far
prepare_escalation_mark(s) ==
    IF ~s.should_escalate
    THEN [s EXCEPT !.should_escalate = TRUE,
                   !.escalation_reason = IF @ = ReasonNone THEN ReasonManual ELSE @]
    ELSE s

\* the ticket_id of prepare_handoff.  process() is called without a ticket
\* id here, so it is "ESC-" and the time of the escalation; the model names
\* it by the request (n) it is made for.
handoff_ticket_id(n) == n

\* the handoff package prepare_handoff builds, queued by queue_escalation
handoff_package(s, n) ==
    LET s1 == prepare_escalation_mark(s)
    IN [ticket_id |-> handoff_ticket_id(n),
        priority |-> get_priority(s1),
        escalation_reason |-> s1.escalation_reason]

\* variant of prepare_escalation: the notice names no ticket
prepare_escalation_without_ticket(s, n) ==
    LET s1 == prepare_escalation_mark(s)
    IN [s1 EXCEPT !.response = [kind |-> "handoff", short |-> FALSE,
                                tokens |-> s1.response.tokens,
                                partial |-> s1.response.kind,
                                ticket |-> NoTicket,
                                token_of |-> s1.response.token_of,
                                restored_of |-> s1.response.restored_of]]

prepare_escalation(s, n) ==
    LET s1 == prepare_escalation_mark(s)
        ticket_id == handoff_package(s, n).ticket_id
    IN [s1 EXCEPT !.response = [kind |-> "handoff", short |-> FALSE,
                                tokens |-> s1.response.tokens,
                                partial |-> s1.response.kind,
                                ticket |-> ticket_id,
                                token_of |-> s1.response.token_of,
                                restored_of |-> s1.response.restored_of]]

\* variant of should_cache: responses served from the cache are written back
should_cache_ignoring_hit(s) ==
    s.confidence >= CACHE_MIN_CONFIDENCE /\ ~s.should_escalate

\* variant of should_cache: a confidence equal to the minimum is not cached
should_cache_above_only(s) ==
    ~s.cache_hit /\ s.confidence > CACHE_MIN_CONFIDENCE /\ ~s.should_escalate

\* _finalize: whether the response is written to the cache
should_cache(s) ==
    ~s.cache_hit /\ s.confidence >= CACHE_MIN_CONFIDENCE /\ ~s.should_escalate

\* _finalize: whether the response is deanonymized
should_deanonymize(s) ==
    s.messages # <<>> /\ Last(s.messages).pii_tokens

\* PIIDetector.deanonymize: every token of the combined map, the
\* detector's own _token_map of all requests and the map passed in, is
\* replaced by its value
deanonymize(response) ==
    [response EXCEPT !.tokens = FALSE, !.token_of = 0,
                     !.restored_of = IF response.tokens THEN response.token_of
                                     ELSE @]

----------------------------------------------------------------------------
(* The workflow graph (_build_graph): the node each edge label leads to *)

\* variant of after_security_check: a blocked request is sent to Finalize
after_security_check_to_finalize(label) ==
    IF label = "block" THEN "finalize" ELSE "cache_check"

after_security_check(label) == IF label = "block" THEN "END" ELSE "cache_check"
after_cache_check(label) == IF label = "hit" THEN "finalize" ELSE "route"
after_route(label) == IF label = "immediate_escalate" THEN "escalate" ELSE "retrieve"
after_retrieve == "respond"
\* variant of after_respond: a retry goes back to Retrieve
after_respond_retry_retrieves(label) ==
    CASE label = "good" -> "quality_check"
      [] label = "retry" -> "retrieve"
      [] OTHER -> "escalate"

after_respond(label) ==
    CASE label = "good" -> "quality_check"
      [] label = "retry" -> "respond"
      [] OTHER -> "escalate"
after_quality_check(label) == IF label = "complete" THEN "finalize" ELSE "escalate"
after_escalate == "finalize"
after_finalize == "END"

----------------------------------------------------------------------------
(* State *)

VARIABLES
    cache,             \* the shared SemanticCache
    now,               \* time.time()
    escalation_queue,  \* EscalationHandler.escalation_queue
    pc,                \* the node the running request is at
    st,                \* the request's AgentState
    req,               \* the request's input
    nreq,              \* requests started
    stages,            \* nodes the running request has executed, in order
    put_called,        \* _finalize called semantic_cache.put
    deanonymized,      \* _finalize called pii_detector.deanonymize
    result,            \* what process() gave its caller
    attempts,          \* per Respond of the running request: did generation
                       \* return, and the confidence Respond left
    cache_result,      \* what semantic_cache.get gave _cache_check
    ops, lastOp,       \* direct cache operations (cache-only specification)
    threads,           \* callers inside get or put at the same time: where
                       \* each one is and its local variables
    calc,              \* a call of _calculate_confidence: input and result
    rotation,          \* a call of _invoke_with_rotation: the responder's
                       \* key pool and the locals of the loop
    fusion,            \* a call of HybridRetriever.search: the ranked lists
                       \* and the fused result
    ticket_store       \* the TicketStore behind the ticket routes, and what
                       \* the last route returned

vars == <<cache, now, escalation_queue, pc, st, req, nreq, stages,
          put_called, deanonymized, result, attempts, cache_result,
          ops, lastOp, threads, calc, rotation, fusion, ticket_store>>

pureVars == <<calc, rotation, fusion, ticket_store>>

requestVars == <<escalation_queue, pc, st, req, nreq, stages,
                 put_called, deanonymized, result, attempts, cache_result>>

\* injection scores of the inputs: below, at and above block_threshold
InjectionScores == {50, 70, 90}

\* what Route arrives at: the question heuristic (0.4, 0.5), and classifier
\* outputs at and beyond the escalation limits, and a query holding the
\* word "urgent"
Classifications ==
    {[urgency |-> 40, sentiment |-> 50, urgent_word |-> FALSE],
     [urgency |-> 90, sentiment |-> 20, urgent_word |-> FALSE],
     [urgency |-> 91, sentiment |-> 50, urgent_word |-> FALSE],
     [urgency |-> 50, sentiment |-> 19, urgent_word |-> FALSE],
     [urgency |-> 40, sentiment |-> 50, urgent_word |-> TRUE]}

\* what Retrieve arrives at: result scores in order, and the word overlap.
\* Two results topped by 0.54 give a confidence of 0.60 without overlap and
\* of exactly 0.70 with full overlap.
RetrievalOutcomes ==
    {[results |-> <<>>, overlap |-> 0],
     [results |-> <<45>>, overlap |-> 0],
     [results |-> <<54, 40>>, overlap |-> 0],
     [results |-> <<54, 40>>, overlap |-> 100],
     [results |-> <<90, 80, 70>>, overlap |-> 100]}

\* what the generation call gives: a text (short or not, echoing the
\* anonymization tokens of the query or not), or an exception
GenOutcomes(s) ==
    {[ok |-> TRUE, short |-> sh, tokens |-> tk] :
        sh \in BOOLEAN,
        tk \in IF s.current_query.anonymized THEN BOOLEAN ELSE {FALSE}}
    \cup {[ok |-> FALSE, short |-> FALSE, tokens |-> FALSE]}

NoRequest == [query |-> 0, pii |-> FALSE, score |-> 0, n |-> 0]
NoResult == [kind |-> "none", response |-> NoResponse, confidence |-> 0,
             escalated |-> FALSE, escalation_reason |-> ReasonNone,
             cache_hit |-> FALSE]
ExceptionResult == [NoResult EXCEPT !.kind = "exception"]

\* the last direct cache operation: its arguments, the time and the cache
\* it was called on, and what it gave
NoOp == [op |-> "none", outcome |-> "", query |-> 0, t |-> 0,
         before |-> NewCache(0), response |-> NoResponse,
         metadata |-> NoMeta, similarity_score |-> 0, original_query |-> 0,
         entry_age |-> NoAge]
NoLookup == [outcome |-> "none", response |-> NoResponse, metadata |-> NoMeta]

Idle == pc \in {"idle", "returned", "raised"}

\* the callers that may be inside the cache at the same time
Threads == {1, 2}

\* a caller outside get and put
NoCall == [pc |-> "idle", op |-> "none", query |-> 0, outcome |-> "",
           best |-> [idx |-> 0, score |-> 0], vec |-> 0, read |-> 0,
           valid |-> <<>>, ret |-> "", aligned0 |-> TRUE,
           capacity |-> FALSE]

\* no call of _calculate_confidence, _invoke_with_rotation or search is
\* being followed
NoCalc == [results |-> <<>>, overlap |-> 0, done |-> FALSE, confidence |-> 0]
NoRotation == [pc |-> "none", pool |-> 1, current_key_index |-> 0,
               keys_tried |-> 0, invocations |-> 0, last |-> "", calls |-> 0,
               trace |-> <<>>, last_error |-> [kind |-> "", attempt |-> 0],
               raised |-> [kind |-> "", attempt |-> 0]]
NoTicketStore == [tickets |-> <<>>, response |-> [kind |-> "none"]]
NoFusion == [pc |-> "none", lists |-> <<>>, fused |-> <<>>,
             complexity |-> "standard", rerank_top_k |-> 0, planned |-> 0,
             searched |-> 0, all_results |-> <<>>, all_lists |-> <<>>,
             retrieval_results |-> <<>>, dense_indexed |-> FALSE,
             sparse_indexed |-> FALSE, context |-> "",
             unique_results |-> <<>>, rerank_calls |-> <<>>]

InitPure ==
    /\ calc = NoCalc
    /\ rotation = NoRotation
    /\ fusion = NoFusion
    /\ ticket_store = NoTicketStore

InitRequest ==
    /\ escalation_queue = <<>>
    /\ pc = "idle"
    /\ st = create_initial_state(0)
    /\ req = NoRequest
    /\ nreq = 0
    /\ stages = <<>>
    /\ put_called = FALSE
    /\ deanonymized = FALSE
    /\ result = NoResult
    /\ attempts = <<>>
    /\ cache_result = NoLookup

\* the process-wide singletons after import: get_semantic_cache()
Init ==
    /\ cache = NewCache(MaxEntries)
    /\ now = 0
    /\ ops = 0
    /\ lastOp = NoOp
    /\ threads = [i \in Threads |-> NoCall]
    /\ InitRequest
    /\ InitPure

----------------------------------------------------------------------------
(* process(): one action per node, with the conditional edge after it *)

\* process() up to compiled.invoke
Start ==
    /\ Idle
    /\ nreq < MaxRequests
    /\ \E q \in RequestQueries, pii \in BOOLEAN, score \in InjectionScores :
          /\ req' = [query |-> q, pii |-> pii, score |-> score, n |-> nreq + 1]
          /\ st' = create_initial_state(q)
    /\ nreq' = nreq + 1
    /\ pc' = "security_check"
    /\ stages' = <<>>
    /\ put_called' = FALSE
    /\ deanonymized' = FALSE
    /\ result' = NoResult
    /\ attempts' = <<>>
    /\ cache_result' = NoLookup
    /\ UNCHANGED <<cache, now, escalation_queue, ops, lastOp, threads, pureVars>>

\* an exception leaves compiled.invoke and process()
Raise ==
    /\ pc' = "raised"
    /\ result' = ExceptionResult

SecurityCheck ==
    /\ pc = "security_check"
    /\ LET s1 == security_check(st, req)
       IN /\ st' = s1
          /\ pc' = after_security_check(should_block(s1))
    /\ stages' = Append(stages, "security_check")
    /\ UNCHANGED <<cache, now, escalation_queue, req, nreq, put_called,
                   deanonymized, result, attempts, cache_result, ops, lastOp, threads, pureVars>>

CacheCheck ==
    /\ pc = "cache_check"
    /\ stages' = Append(stages, "cache_check")
    /\ \E embedOk \in BOOLEAN :
         LET g == cache_get(cache, st.current_query.id, now, embedOk)
         IN /\ cache' = g.cache
            /\ cache_result' = [outcome |-> g.outcome, response |-> g.response,
                                metadata |-> g.metadata]
            /\ IF g.outcome = "raise"
               THEN Raise /\ UNCHANGED st
               ELSE LET s1 == cache_check(st, g)
                    IN /\ st' = s1
                       /\ pc' = after_cache_check(has_cache_hit(s1))
                       /\ UNCHANGED result
    /\ UNCHANGED <<now, escalation_queue, req, nreq, put_called,
                   deanonymized, attempts, ops, lastOp, threads, pureVars>>

Route ==
    /\ pc = "route"
    /\ stages' = Append(stages, "route")
    /\ \E c \in Classifications :
         LET s1 == route(st, c)
         IN /\ st' = route_decision_state(s1)
            /\ pc' = after_route(route_decision(s1))
    /\ UNCHANGED <<cache, now, escalation_queue, req, nreq, put_called,
                   deanonymized, result, attempts, cache_result, ops, lastOp, threads, pureVars>>

Retrieve ==
    /\ pc = "retrieve"
    /\ stages' = Append(stages, "retrieve")
    /\ \/ \E o \in RetrievalOutcomes :
            /\ st' = retrieve(st, o)
            /\ pc' = after_retrieve
            /\ UNCHANGED result
       \/ \* the embedding call of the dense search fails
          Raise /\ UNCHANGED st
    /\ UNCHANGED <<cache, now, escalation_queue, req, nreq, put_called,
                   deanonymized, attempts, cache_result, ops, lastOp, threads, pureVars>>

Respond ==
    /\ pc = "respond"
    /\ stages' = Append(stages, "respond")
    /\ \E gen \in GenOutcomes(st) :
         LET s1 == respond(st, gen)
         IN /\ st' = quality_decision_state(s1)
            /\ pc' = after_respond(quality_decision(s1))
            /\ attempts' = Append(attempts, [ok |-> gen.ok,
                                             confidence |-> s1.confidence])
    /\ UNCHANGED <<cache, now, escalation_queue, req, nreq, put_called,
                   deanonymized, result, cache_result, ops, lastOp, threads, pureVars>>

QualityCheck ==
    /\ pc = "quality_check"
    /\ stages' = Append(stages, "quality_check")
    /\ LET s1 == quality_check(st)
       IN /\ st' = s1
          /\ pc' = after_quality_check(final_decision(s1))
    /\ UNCHANGED <<cache, now, escalation_queue, req, nreq, put_called,
                   deanonymized, result, attempts, cache_result, ops, lastOp, threads, pureVars>>

Escalate ==
    /\ pc = "escalate"
    /\ stages' = Append(stages, "escalate")
    /\ st' = prepare_escalation(st, nreq)
    /\ escalation_queue' = Append(escalation_queue, handoff_package(st, nreq))
    /\ pc' = after_escalate
    /\ UNCHANGED <<cache, now, req, nreq, put_called, deanonymized, result,
                   attempts, cache_result, ops, lastOp, threads, pureVars>>

Finalize ==
    /\ pc = "finalize"
    /\ stages' = Append(stages, "finalize")
    /\ put_called' = should_cache(st)
    /\ \E embedOk \in BOOLEAN :
         LET p == IF should_cache(st)
                  THEN cache_put(cache, st.current_query.id, st.response,
                                 [confidence |-> st.confidence], now, embedOk)
                  ELSE [cache |-> cache, outcome |-> "skipped"]
         IN /\ cache' = p.cache
            /\ IF p.outcome = "raise"
               THEN Raise /\ UNCHANGED <<st, deanonymized>>
               ELSE /\ deanonymized' = should_deanonymize(st)
                    /\ st' = IF should_deanonymize(st)
                             THEN [st EXCEPT !.response = deanonymize(@)]
                             ELSE st
                    /\ pc' = after_finalize
                    /\ UNCHANGED result
    /\ UNCHANGED <<now, escalation_queue, req, nreq, attempts, cache_result,
                   ops, lastOp, threads, pureVars>>

\* process() after compiled.invoke: the result dictionary
ProcessReturn ==
    /\ pc = "END"
    /\ result' = [kind |-> "returned", response |-> st.response,
                  confidence |-> st.confidence,
                  escalated |-> st.should_escalate,
                  escalation_reason |-> st.escalation_reason,
                  cache_hit |-> st.cache_hit]
    /\ pc' = "returned"
    /\ UNCHANGED <<cache, now, escalation_queue, st, req, nreq, stages,
                   put_called, deanonymized, attempts, cache_result,
                   ops, lastOp, threads, pureVars>>

\* the clock advances between requests and between cache operations
Tick ==
    /\ Idle
    /\ now < MaxTime
    /\ now' = now + 1
    /\ UNCHANGED <<cache, requestVars, ops, lastOp, threads, pureVars>>

Next ==
    \/ Start
    \/ SecurityCheck
    \/ CacheCheck
    \/ Route
    \/ Retrieve
    \/ Respond
    \/ QualityCheck
    \/ Escalate
    \/ Finalize
    \/ ProcessReturn
    \/ Tick

Spec == Init /\ [][Next]_vars

\* every request runs to its end: invoke() executes node after node
FairSpec == Spec /\ WF_vars(SecurityCheck \/ CacheCheck \/ Route \/ Retrieve
                            \/ Respond \/ QualityCheck \/ Escalate \/ Finalize
                            \/ ProcessReturn)

----------------------------------------------------------------------------
(* The cache on its own: get and put called directly *)

\* responses and metadata that direct callers of the cache store
DirectResponses == {Generated(FALSE, FALSE, 0)}
DirectMetadata == {[confidence |-> 80]}

InitCache ==
    /\ cache \in {NewCache(m) : m \in 1..MaxEntries}
    /\ now = 0
    /\ ops = 0
    /\ lastOp = NoOp
    /\ threads = [i \in Threads |-> NoCall]
    /\ InitRequest
    /\ InitPure

DirectGet ==
    /\ ops < MaxOps
    /\ \E q \in Queries, embedOk \in BOOLEAN :
         LET g == cache_get(cache, q, now, embedOk)
         IN /\ cache' = g.cache
            /\ lastOp' = [op |-> "get", outcome |-> g.outcome, query |-> q,
                          t |-> now, before |-> cache,
                          response |-> g.response, metadata |-> g.metadata,
                          similarity_score |-> g.similarity_score,
                          original_query |-> g.original_query,
                          entry_age |-> g.entry_age]
    /\ ops' = ops + 1
    /\ UNCHANGED <<now, requestVars, threads, pureVars>>

DirectPut ==
    /\ ops < MaxOps
    /\ \E q \in Queries, r \in DirectResponses, m \in DirectMetadata,
          embedOk \in BOOLEAN :
         LET p == cache_put(cache, q, r, m, now, embedOk)
         IN /\ cache' = p.cache
            /\ lastOp' = [NoOp EXCEPT !.op = "put", !.outcome = p.outcome,
                                      !.query = q, !.t = now,
                                      !.before = cache, !.response = r,
                                      !.metadata = m]
    /\ ops' = ops + 1
    /\ UNCHANGED <<now, requestVars, threads, pureVars>>

NextCache == Tick \/ DirectGet \/ DirectPut

SpecCache == InitCache /\ [][NextCache]_vars

----------------------------------------------------------------------------
(* The cache under callers that overlap: get and put statement by          *)
(* statement.  SemanticCache takes no lock, so a caller can be preempted   *)
(* between any two statements; each action below is one statement, or a    *)
(* group of statements executed without preemption.                        *)

Aligned(c) == c.index = EmbeddingsOf(c.entries)

Done(th, outcome) == [th EXCEPT !.pc = "done", !.outcome = outcome]

ThreadFrame == UNCHANGED <<now, requestVars, ops, lastOp, pureVars>>

\* a caller enters get or put; the callers are alike, so they enter in the
\* order of their numbers
ConcBegin ==
    /\ ops < MaxOps
    /\ \E i \in Threads, op \in {"get", "put"}, q \in Queries :
          /\ threads[i].pc = "idle"
          /\ \A j \in Threads : j < i => threads[j].pc # "idle"
          /\ threads' = [threads EXCEPT ![i] =
                 [NoCall EXCEPT
                     !.pc = IF op = "get" THEN "get_check" ELSE "put_search",
                     !.op = op, !.query = q,
                     !.aligned0 = Aligned(cache)]]
    /\ ops' = ops + 1
    /\ lastOp' = NoOp
    /\ UNCHANGED <<cache, now, requestVars, pureVars>>

\* get, lines 98-104: the empty cache, and the test of the first entry
GetCheck ==
    \E i \in Threads :
      /\ threads[i].pc = "get_check"
      /\ IF cache.entries = <<>>
         THEN /\ cache' = [cache EXCEPT !.total_misses = @ + 1]
              /\ threads' = [threads EXCEPT ![i] = Done(@, "miss")]
         ELSE /\ UNCHANGED cache
              /\ threads' = [threads EXCEPT ![i] =
                     IF is_expired(cache.entries[1], now)
                     THEN [@ EXCEPT !.pc = "cleanup_scan",
                                    !.ret = "get_after_cleanup"]
                     ELSE [@ EXCEPT !.pc = "get_search"]]
      /\ ThreadFrame

\* _cleanup_expired, lines 70-82: the loop that collects the valid entries
CleanupScan ==
    \E i \in Threads :
      /\ threads[i].pc = "cleanup_scan"
      /\ threads' = [threads EXCEPT ![i] =
             IF cache.entries = <<>>
             THEN [@ EXCEPT !.pc = threads[i].ret]
             ELSE [@ EXCEPT !.pc = "cleanup_assign",
                            !.valid = SelectSeq(cache.entries,
                                         LAMBDA e : ~is_expired(e, now))]]
      /\ UNCHANGED cache
      /\ ThreadFrame

\* _cleanup_expired, lines 84-85: self.entries = valid_entries
CleanupAssign ==
    \E i \in Threads :
      /\ threads[i].pc = "cleanup_assign"
      /\ IF Len(threads[i].valid) < Len(cache.entries)
         THEN /\ cache' = [cache EXCEPT !.entries = threads[i].valid]
              /\ threads' = [threads EXCEPT ![i].pc = "cleanup_rebuild"]
         ELSE /\ UNCHANGED cache
              /\ threads' = [threads EXCEPT ![i].pc = threads[i].ret]
      /\ ThreadFrame

\* _cleanup_expired, lines 86-89: the index rebuilt from the valid entries
CleanupRebuild ==
    \E i \in Threads :
      /\ threads[i].pc = "cleanup_rebuild"
      /\ cache' = IF threads[i].valid # <<>>
                  THEN [cache EXCEPT !.index = EmbeddingsOf(threads[i].valid)]
                  ELSE cache
      /\ threads' = [threads EXCEPT ![i].pc = threads[i].ret]
      /\ ThreadFrame

\* get, lines 105-107
GetAfterCleanup ==
    \E i \in Threads :
      /\ threads[i].pc = "get_after_cleanup"
      /\ IF cache.entries = <<>>
         THEN /\ cache' = [cache EXCEPT !.total_misses = @ + 1]
              /\ threads' = [threads EXCEPT ![i] = Done(@, "miss")]
         ELSE /\ UNCHANGED cache
              /\ threads' = [threads EXCEPT ![i].pc = "get_search"]
      /\ ThreadFrame

\* get, lines 110-114: the query embedded and the index searched
GetSearch ==
    \E i \in Threads, embedOk \in BOOLEAN :
      /\ threads[i].pc = "get_search"
      /\ threads' = [threads EXCEPT ![i] =
             IF ~embedOk THEN Done(@, "raise")
             ELSE LET found == IndexSearch(cache.index, Embed(@.query))
                  IN [@ EXCEPT !.pc = "get_read", !.best = found,
                               !.vec = IF found.idx = 0 THEN 0
                                       ELSE cache.index[found.idx]]]
      /\ UNCHANGED cache
      /\ ThreadFrame

\* get, lines 116-133: entries[best_idx] read and returned
GetRead ==
    \E i \in Threads :
      /\ threads[i].pc = "get_read"
      /\ LET th == threads[i]
             b == th.best
         IN IF b.idx # 0 /\ b.score >= SEMANTIC_CACHE_THRESHOLD
            THEN IF b.idx > Len(cache.entries)
                 THEN /\ UNCHANGED cache
                      /\ threads' = [threads EXCEPT ![i] =
                                        Done(@, "index_error")]
                 ELSE IF ~is_expired(cache.entries[b.idx], now)
                 THEN /\ cache' = [cache EXCEPT
                                      !.entries[b.idx].hits = @ + 1,
                                      !.total_hits = @ + 1]
                      /\ threads' = [threads EXCEPT ![i] =
                             [Done(@, "hit") EXCEPT
                                 !.read = cache.entries[b.idx].embedding]]
                 ELSE /\ cache' = [cache EXCEPT !.total_misses = @ + 1]
                      /\ threads' = [threads EXCEPT ![i] = Done(@, "miss")]
            ELSE /\ cache' = [cache EXCEPT !.total_misses = @ + 1]
                 /\ threads' = [threads EXCEPT ![i] = Done(@, "miss")]
      /\ ThreadFrame

\* put, lines 150-161: the query embedded and the index searched for an
\* entry to update
PutSearch ==
    \E i \in Threads, embedOk \in BOOLEAN :
      /\ threads[i].pc = "put_search"
      /\ threads' = [threads EXCEPT ![i] =
             IF ~embedOk THEN Done(@, "raise")
             ELSE IF cache.entries = <<>> THEN [@ EXCEPT !.pc = "put_capacity"]
             ELSE LET found == IndexSearch(cache.index, Embed(@.query))
                  IN [@ EXCEPT !.best = found,
                               !.pc = IF /\ found.idx # 0
                                         /\ found.score >= UPDATE_THRESHOLD
                                      THEN "put_update"
                                      ELSE "put_capacity"]]
      /\ UNCHANGED cache
      /\ ThreadFrame

\* put, lines 162-166: the entry at the position found is overwritten
PutUpdate ==
    \E i \in Threads, r \in DirectResponses, m \in DirectMetadata :
      /\ threads[i].pc = "put_update"
      /\ LET idx == threads[i].best.idx
         IN IF idx > Len(cache.entries)
            THEN /\ UNCHANGED cache
                 /\ threads' = [threads EXCEPT ![i] = Done(@, "index_error")]
            ELSE /\ cache' = [cache EXCEPT !.entries[idx].response = r,
                                           !.entries[idx].metadata = m,
                                           !.entries[idx].created_at = now]
                 /\ threads' = [threads EXCEPT ![i] = Done(@, "updated")]
      /\ ThreadFrame

\* put, line 169: at capacity the expiry cleanup is called
PutCapacity ==
    \E i \in Threads :
      /\ threads[i].pc = "put_capacity"
      /\ threads' = [threads EXCEPT ![i] =
             IF Len(cache.entries) >= cache.max_entries
             THEN [@ EXCEPT !.pc = "cleanup_scan", !.ret = "put_evict",
                            !.capacity = TRUE]
             ELSE [@ EXCEPT !.pc = "put_append"]]
      /\ UNCHANGED cache
      /\ ThreadFrame

\* put, lines 171-174: the head of the list is dropped
PutEvict ==
    \E i \in Threads :
      /\ threads[i].pc = "put_evict"
      /\ IF Len(cache.entries) >= cache.max_entries
         THEN /\ cache' = [cache EXCEPT !.entries =
                     Drop(@, Len(@) - cache.max_entries + EvictBatch)]
              /\ threads' = [threads EXCEPT ![i].pc = "put_evict_rebuild"]
         ELSE /\ UNCHANGED cache
              /\ threads' = [threads EXCEPT ![i].pc = "put_append"]
      /\ ThreadFrame

\* put, lines 175-178: the index rebuilt from the entries that remain
PutEvictRebuild ==
    \E i \in Threads :
      /\ threads[i].pc = "put_evict_rebuild"
      /\ cache' = IF cache.entries # <<>>
                  THEN [cache EXCEPT !.index = EmbeddingsOf(cache.entries)]
                  ELSE cache
      /\ threads' = [threads EXCEPT ![i].pc = "put_append"]
      /\ ThreadFrame

\* put, lines 181-187: self.entries.append(entry)
PutAppend ==
    \E i \in Threads, r \in DirectResponses, m \in DirectMetadata :
      /\ threads[i].pc = "put_append"
      /\ cache' = [cache EXCEPT !.entries =
             Append(@, CacheEntry(threads[i].query, r,
                                  Embed(threads[i].query), m, now))]
      /\ threads' = [threads EXCEPT ![i].pc = "put_index_add"]
      /\ ThreadFrame

\* put, line 188: self.index.add(query_embedding)
PutIndexAdd ==
    \E i \in Threads :
      /\ threads[i].pc = "put_index_add"
      /\ cache' = [cache EXCEPT !.index = Append(@, Embed(threads[i].query))]
      /\ threads' = [threads EXCEPT ![i] = Done(@, "inserted")]
      /\ ThreadFrame

\* a put that no other caller overlaps, before the overlapping callers
\* enter
SequentialPut ==
    /\ \A i \in Threads : threads[i].pc = "idle"
    /\ ops + Cardinality(Threads) < MaxOps
    /\ DirectPut

NextConc ==
    \/ Tick
    \/ SequentialPut
    \/ ConcBegin
    \/ GetCheck
    \/ CleanupScan
    \/ CleanupAssign
    \/ CleanupRebuild
    \/ GetAfterCleanup
    \/ GetSearch
    \/ GetRead
    \/ PutSearch
    \/ PutUpdate
    \/ PutCapacity
    \/ PutEvict
    \/ PutEvictRebuild
    \/ PutAppend
    \/ PutIndexAdd

SpecConc == InitCache /\ [][NextConc]_vars

----------------------------------------------------------------------------
(* _calculate_confidence over the retrieval states a request can carry *)

\* the longest retrieval result list followed
MaxResults == 6

\* top scores of a result list: fused scores (a few hundredths), native
\* scores, and reranker scores, which are unbounded logits
TopScores == {-300, 0, 3, 30, 54, 80, 100, 700}
Overlaps == {0, 50, 100}

\* a list of n results under the top score (only the first score and the
\* length are read)
ResultList(top, n) == [i \in 1..n |-> top]

InitConfidence ==
    /\ cache = NewCache(MaxEntries)
    /\ now = 0
    /\ ops = 0
    /\ lastOp = NoOp
    /\ threads = [i \in Threads |-> NoCall]
    /\ InitRequest
    /\ rotation = NoRotation
    /\ fusion = NoFusion
    /\ ticket_store = NoTicketStore
    /\ \E top \in TopScores, n \in 0..MaxResults, ov \in Overlaps :
          calc = [NoCalc EXCEPT !.results = ResultList(top, n),
                                !.overlap = ov]

\* Respond with a generation that succeeds, on a request whose Retrieve
\* left calc.results
CalcRespond ==
    /\ ~calc.done
    /\ LET s0 == retrieve(create_initial_state(1),
                          [results |-> calc.results, overlap |-> calc.overlap])
           s1 == respond(s0, [ok |-> TRUE, short |-> FALSE, tokens |-> FALSE])
       IN calc' = [calc EXCEPT !.done = TRUE, !.confidence = s1.confidence]
    /\ UNCHANGED <<cache, now, requestVars, ops, lastOp, threads,
                   rotation, fusion, ticket_store>>

SpecConfidence == InitConfidence /\ [][CalcRespond]_vars

----------------------------------------------------------------------------
(* _invoke_with_rotation: the generation call of Respond and the key pool *)

\* the largest key pool and the number of Responds followed
MaxKeys == 5
MaxCalls == 2

\* max_retries, the default of _invoke_with_rotation
MAX_KEYS_TRIED == 4

\* what one model.invoke gives: a response, a quota or rate-limit error,
\* or any other exception
InvokeOutcomes == {"ok", "quota", "other"}

\* variant of keys_limit: max_retries is not consulted
keys_limit_pool_only(pool) == pool

\* the bound of the while loop
keys_limit(pool) == Min(MAX_KEYS_TRIED, pool)

\* no exception: last_error = None
NoError == [kind |-> "", attempt |-> 0]

\* raise last_error or Exception("All API keys quota exceeded")
raised_after_loop(last_error) ==
    IF last_error = NoError THEN [kind |-> "exhausted", attempt |-> 0]
    ELSE last_error

\* variant of rotate_key: the index stays
rotate_key_stays(index, pool) == index

\* _rotate_key: the next index
rotate_key(index, pool) == (index + 1) % pool

\* the responder after construction, over the sizes of the key pool
InitRotation ==
    /\ cache = NewCache(MaxEntries)
    /\ now = 0
    /\ ops = 0
    /\ lastOp = NoOp
    /\ threads = [i \in Threads |-> NoCall]
    /\ InitRequest
    /\ calc = NoCalc
    /\ fusion = NoFusion
    /\ ticket_store = NoTicketStore
    /\ \E n \in 1..MaxKeys :
          rotation = [NoRotation EXCEPT !.pc = "idle", !.pool = n]

RotationFrame ==
    UNCHANGED <<cache, now, requestVars, ops, lastOp, threads, calc, fusion,
                ticket_store>>

\* respond calls _invoke_with_rotation
RotationBegin ==
    /\ rotation.pc \in {"idle", "returned", "raised"}
    /\ rotation.calls < MaxCalls
    /\ rotation' = [rotation EXCEPT !.pc = "loop", !.keys_tried = 0,
                                    !.invocations = 0, !.last = "",
                                    !.calls = @ + 1, !.trace = <<>>,
                                    !.last_error = NoError,
                                    !.raised = NoError]
    /\ RotationFrame

\* one pass of the while loop: the model is invoked
RotationInvoke ==
    /\ rotation.pc = "loop"
    /\ rotation.keys_tried < keys_limit(rotation.pool)
    /\ \E o \in InvokeOutcomes :
         LET r1 == [rotation EXCEPT !.invocations = @ + 1, !.last = o,
                        !.trace = @ \o <<[key |-> rotation.current_key_index,
                                          outcome |-> o]>>]
             e == [kind |-> o, attempt |-> rotation.invocations + 1]
             next_index == rotate_key(rotation.current_key_index, rotation.pool)
         IN rotation' =
              CASE o = "ok" -> [r1 EXCEPT !.pc = "returned"]
                [] o = "other" -> [r1 EXCEPT !.pc = "raised", !.raised = e]
                [] OTHER ->
                     IF next_index # rotation.current_key_index
                     THEN [r1 EXCEPT !.keys_tried = @ + 1,
                                     !.current_key_index = next_index,
                                     !.last_error = e]
                     ELSE [r1 EXCEPT !.keys_tried = @ + 1,
                                     !.current_key_index = next_index,
                                     !.last_error = e,
                                     !.pc = "raised",
                                     !.raised = raised_after_loop(e)]
    /\ RotationFrame

\* the while condition fails: every key allowed has been tried
RotationExhausted ==
    /\ rotation.pc = "loop"
    /\ ~(rotation.keys_tried < keys_limit(rotation.pool))
    /\ rotation' = [rotation EXCEPT !.pc = "raised",
                        !.raised = raised_after_loop(rotation.last_error)]
    /\ RotationFrame

NextRotation ==
    \/ RotationBegin
    \/ RotationInvoke
    \/ RotationExhausted

SpecRotation == InitRotation /\ [][NextRotation]_vars

----------------------------------------------------------------------------
(* HybridRetriever: reciprocal rank fusion of ranked result lists *)

\* the number of lists fused and the length of a list
MaxLists == 2
MaxRank == 2

\* rrf_k
RRF_K == 60

\* Fused scores are sums of fractions 1/(k + rank + 1); they are kept as
\* integers, in units of 1/RankDenominator, the product of the
\* denominators of all ranks.
RECURSIVE ProductTo(_)
ProductTo(rank) ==
    IF rank < 0 THEN 1 ELSE (RRF_K + rank + 1) * ProductTo(rank - 1)

RankDenominator == ProductTo(MaxRank - 1)

\* variant of rank_contribution: the formula of the docstring, 1/(k + rank),
\* on the 0-based rank
rank_contribution_docstring(rank) == RankDenominator \div (RRF_K + rank)

\* 1 / (self.rrf_k + rank + 1)
rank_contribution(rank) == RankDenominator \div (RRF_K + rank + 1)

\* What the two indexes hold.  add_chunks appends to both indexes without
\* looking for a chunk id already indexed, so a document indexed again
\* leaves two entries under one chunk id: chunk 1 is held twice here.
Indexed ==
    <<[chunk_id |-> 1, copy |-> 1],
      [chunk_id |-> 2, copy |-> 1],
      [chunk_id |-> 1, copy |-> 2]>>

\* native scores of the first result of a list; they fall with the rank
TopNativeScores == {10, 11}

\* what a retriever returns: distinct entries of its index in rank order,
\* each with its native score
RankedLists ==
    {<<>>} \cup
    UNION {{[r \in 1..n |-> [chunk_id |-> Indexed[e[r]].chunk_id,
                             copy |-> Indexed[e[r]].copy,
                             score |-> top - r,
                             source |-> 0]] :
               e \in {f \in [1..n -> 1..Len(Indexed)] :
                         \A i, j \in 1..n : i # j => f[i] # f[j]},
               top \in TopNativeScores} :
           n \in 1..MaxRank}

\* each result names the list it comes from ("source")
FromSources(ls) ==
    [l \in 1..Len(ls) |->
        [r \in 1..Len(ls[l]) |-> [ls[l][r] EXCEPT !.source = l]]]

\* doc_id: every indexed entry carries chunk_id in its metadata
doc_key(r) == r.chunk_id

\* the position of a key in the insertion-ordered dictionaries, 0 if absent
KeyIndex(acc, key) ==
    IF \E i \in 1..Len(acc) : acc[i].key = key
    THEN CHOOSE i \in 1..Len(acc) : acc[i].key = key
    ELSE 0

\* the inner loop of _reciprocal_rank_fusion over one list, from the given
\* 0-based rank on; acc holds fused_scores and doc_data in insertion order
RECURSIVE fuse_list(_, _, _)
fuse_list(results, rank, acc) ==
    IF rank >= Len(results) THEN acc
    ELSE LET res == results[rank + 1]
             key == doc_key(res)
             i == KeyIndex(acc, key)
             acc1 == IF i = 0
                     THEN Append(acc, [key |-> key,
                                       fused_score |-> rank_contribution(rank),
                                       data |-> res])
                     ELSE [acc EXCEPT
                             ![i].fused_score = @ + rank_contribution(rank),
                             ![i].data = IF res.score > @.score
                                         THEN res ELSE @]
         IN fuse_list(results, rank + 1, acc1)

\* the outer loop, from list l on
RECURSIVE fuse_lists(_, _, _)
fuse_lists(result_lists, l, acc) ==
    IF l > Len(result_lists) THEN acc
    ELSE fuse_lists(result_lists, l + 1, fuse_list(result_lists[l], 0, acc))

\* variant of sort_by_fused_score: among equal scores the later insertion
\* comes first
RECURSIVE sort_by_fused_score_ties_reversed(_)
sort_by_fused_score_ties_reversed(items) ==
    IF items = <<>> THEN <<>>
    ELSE LET n == Len(items)
             x == items[n]
             front == sort_by_fused_score_ties_reversed(SubSeq(items, 1, n - 1))
             p == Cardinality({i \in 1..Len(front) :
                                 front[i].fused_score > x.fused_score})
         IN SubSeq(front, 1, p) \o <<x>> \o SubSeq(front, p + 1, Len(front))

\* sorted(.., key = fused score, reverse = True): the sort is stable, equal
\* scores keep their insertion order
RECURSIVE sort_by_fused_score(_)
sort_by_fused_score(items) ==
    IF items = <<>> THEN <<>>
    ELSE LET n == Len(items)
             x == items[n]
             front == sort_by_fused_score(SubSeq(items, 1, n - 1))
             p == Cardinality({i \in 1..Len(front) :
                                 front[i].fused_score >= x.fused_score})
         IN SubSeq(front, 1, p) \o <<x>> \o SubSeq(front, p + 1, Len(front))

\* _reciprocal_rank_fusion
reciprocal_rank_fusion(result_lists) ==
    LET sorted_docs == sort_by_fused_score(fuse_lists(result_lists, 1, <<>>))
    IN [i \in 1..Len(sorted_docs) |->
          [chunk_id |-> sorted_docs[i].data.chunk_id,
           copy |-> sorted_docs[i].data.copy,
           score |-> sorted_docs[i].data.score,
           source |-> sorted_docs[i].data.source,
           fused_score |-> sorted_docs[i].fused_score]]

\* the lists handed to _reciprocal_rank_fusion
InitFusion ==
    /\ cache = NewCache(MaxEntries)
    /\ now = 0
    /\ ops = 0
    /\ lastOp = NoOp
    /\ threads = [i \in Threads |-> NoCall]
    /\ InitRequest
    /\ calc = NoCalc
    /\ rotation = NoRotation
    /\ ticket_store = NoTicketStore
    /\ \E n \in 1..MaxLists :
         \E ls \in [1..n -> RankedLists] :
            fusion = [NoFusion EXCEPT !.pc = "lists",
                                      !.lists = FromSources(ls)]

Fuse ==
    /\ fusion.pc = "lists"
    /\ fusion' = [fusion EXCEPT !.pc = "fused",
                                !.fused = reciprocal_rank_fusion(fusion.lists)]
    /\ UNCHANGED <<cache, now, requestVars, ops, lastOp, threads,
                   calc, rotation, ticket_store>>

SpecFusion == InitFusion /\ [][Fuse]_vars

----------------------------------------------------------------------------
(* RetrieverAgent.retrieve: one hybrid search per query variant, the results
   deduplicated and reranked *)

\* the searches of one retrieve (query variants and the hypothetical
\* document) and the results a retriever returns to one search
MaxSearches == 2
MaxDepth == 1

Complexities == {"simple", "standard", "complex", "specialized"}

\* complexity_multipliers, in percent
multiplier(complexity) ==
    CASE complexity = "simple" -> 50
      [] complexity = "standard" -> 100
      [] complexity = "complex" -> 150
      [] complexity = "specialized" -> 200

\* RERANK_TOP_K as configured: the default, and the smallest setting
RerankTopKs == {1, 5}

\* how many searches retrieve makes: the query alone for a simple request,
\* else the query and up to three variations, and one more with the
\* hypothetical document for complex and specialized requests
SearchCounts(complexity) ==
    CASE complexity = "simple" -> {1}
      [] complexity = "standard" -> 1..4
      [] OTHER -> 2..5

\* what a retriever returns to one search: distinct chunks in rank order
SearchLists ==
    {<<>>} \cup
    UNION {{[r \in 1..n |-> [chunk_id |-> Indexed[e[r]].chunk_id,
                             copy |-> Indexed[e[r]].copy,
                             score |-> 10 - r,
                             source |-> 0]] :
               e \in {f \in [1..n -> {i \in 1..Len(Indexed) : Indexed[i].copy = 1}] :
                         \A i, j \in 1..n : i # j => f[i] # f[j]}} :
           n \in 1..Min(MaxDepth, MaxRank)}

\* a third chunk; to keep the searches few, only the vector search returns
\* it, and alone
SemanticOnly == <<[chunk_id |-> 3, copy |-> 1, score |-> 9, source |-> 0]>>

\* what a retriever with an index arrives at for one search: a list, or
\* (dense only) an exception of the embedding call
Found(results) == [raised |-> FALSE, results |-> results]
SearchRaised == [raised |-> TRUE, results |-> <<>>]
DenseFinds == {Found(l) : l \in SearchLists \cup {SemanticOnly}} \cup {SearchRaised}
SparseFinds == {Found(l) : l \in SearchLists}

\* DenseRetriever.search: without a vector store the result is empty
dense_search(indexed, find) == IF ~indexed THEN Found(<<>>) ELSE find

\* variant of sparse_search: the missing index is not tested for
sparse_search_unguarded(indexed, find) ==
    IF ~indexed THEN SearchRaised ELSE find

\* SparseRetriever.search: without a BM25 index or documents the result is
\* empty
sparse_search(indexed, find) == IF ~indexed THEN Found(<<>>) ELSE find

\* the context _build_context gives when there are no retrieval results
NoDocumentation == "No relevant documentation found."

\* ResponderAgent._build_context
build_context(retrieval_results) ==
    IF retrieval_results = <<>> THEN NoDocumentation ELSE "sources"

\* results[:n]
Truncate(results, n) == SubSeq(results, 1, Min(n, Len(results)))

\* HybridRetriever.search with adaptive_k: the two lists fused, cut to
\* int(final_top_k * multiplier)
search(dense_results, sparse_results, rerank_top_k, complexity) ==
    LET final_top_k == (rerank_top_k * multiplier(complexity)) \div 100
        fused_results == reciprocal_rank_fusion(
                             FromSources(<<dense_results, sparse_results>>))
    IN Truncate(fused_results, final_top_k)

\* variant of deduplicate: nothing is dropped
deduplicate_nothing(all_results) == all_results

\* the deduplication loop of retrieve: the first result of every chunk id
\* is kept
deduplicate(all_results) ==
    LET kept == {i \in 1..Len(all_results) :
                   \A j \in 1..(i - 1) :
                      all_results[j].chunk_id # all_results[i].chunk_id}
        position(k) == CHOOSE i \in kept :
                          Cardinality({j \in kept : j < i}) = k - 1
    IN [k \in 1..Cardinality(kept) |-> all_results[position(k)]]

\* the orders the cross-encoder may put n results in
\* the scores the cross-encoder predicts for a pair of query and passage
RerankScores == {-1, 2}

\* result["rerank_score"] = float(score)
with_rerank_score(results, scores) ==
    [i \in 1..Len(results) |->
        [chunk_id |-> results[i].chunk_id, copy |-> results[i].copy,
         score |-> results[i].score, source |-> results[i].source,
         fused_score |-> results[i].fused_score,
         rerank_score |-> scores[i]]]

\* sorted(.., key = rerank score, reverse = True): stable
RECURSIVE sort_by_rerank_score(_)
sort_by_rerank_score(items) ==
    IF items = <<>> THEN <<>>
    ELSE LET n == Len(items)
             x == items[n]
             front == sort_by_rerank_score(SubSeq(items, 1, n - 1))
             p == Cardinality({i \in 1..Len(front) :
                                 front[i].rerank_score >= x.rerank_score})
         IN SubSeq(front, 1, p) \o <<x>> \o SubSeq(front, p + 1, Len(front))

\* Reranker.rerank
rerank(results, scores, top_k) ==
    IF results = <<>> THEN <<>>
    ELSE LET reranked == sort_by_rerank_score(with_rerank_score(results, scores))
         IN SubSeq(reranked, 1, Min(top_k, Len(reranked)))

\* variant of rerank_wanted: RERANK_TOP_K results are enough
rerank_wanted_at_top_k(unique_results, rerank_top_k) ==
    Len(unique_results) >= rerank_top_k

\* "Rerank if we have enough results"
rerank_wanted(unique_results, rerank_top_k) ==
    Len(unique_results) > rerank_top_k

\* the RetrievalResult of a fused result
AsFused(r) == [chunk_id |-> r.chunk_id, copy |-> r.copy,
               score |-> r.fused_score, kind |-> "fused_score"]

\* the RetrievalResult of a reranked result
AsReranked(r) == [chunk_id |-> r.chunk_id, copy |-> r.copy,
                  score |-> r.rerank_score, kind |-> "rerank_score"]

InitRetrieve ==
    /\ cache = NewCache(MaxEntries)
    /\ now = 0
    /\ ops = 0
    /\ lastOp = NoOp
    /\ threads = [i \in Threads |-> NoCall]
    /\ InitRequest
    /\ calc = NoCalc
    /\ rotation = NoRotation
    /\ ticket_store = NoTicketStore
    /\ \E c \in Complexities, k \in RerankTopKs :
         \E n \in SearchCounts(c) \cap (1..MaxSearches) :
            \E di \in BOOLEAN, si \in BOOLEAN :
               fusion = [NoFusion EXCEPT !.pc = "searching", !.complexity = c,
                                         !.rerank_top_k = k, !.planned = n,
                                         !.dense_indexed = di,
                                         !.sparse_indexed = si]

RetrieveFrame ==
    UNCHANGED <<cache, now, requestVars, ops, lastOp, threads, calc, rotation,
                ticket_store>>

\* one pass of the loops over the query variations and the hypothetical
\* document: self.hybrid.search and all_results.extend
VariantSearch ==
    /\ fusion.pc = "searching"
    /\ fusion.searched < fusion.planned
    /\ \E df \in DenseFinds, sf \in SparseFinds :
         LET dense == dense_search(fusion.dense_indexed, df)
             sparse == sparse_search(fusion.sparse_indexed, sf)
             dense_results == dense.results
             sparse_results == sparse.results
             results == search(dense_results, sparse_results,
                               fusion.rerank_top_k, fusion.complexity)
         IN IF dense.raised \/ sparse.raised
            THEN fusion' = [fusion EXCEPT !.pc = "raised"]
            ELSE fusion' = [fusion EXCEPT
                   !.lists = FromSources(<<dense_results, sparse_results>>),
                   !.fused = results,
                   !.searched = @ + 1,
                   !.all_results = @ \o results,
                   !.all_lists = @ \o <<dense_results, sparse_results>>]
    /\ RetrieveFrame

\* the rest of retrieve: deduplication, reranking when there are more than
\* RERANK_TOP_K results, conversion to RetrievalResult
RetrieveFinish ==
    /\ fusion.pc = "searching"
    /\ fusion.searched = fusion.planned
    /\ LET unique_results == deduplicate(fusion.all_results)
           n == Len(unique_results)
       IN IF rerank_wanted(unique_results, fusion.rerank_top_k)
          THEN \E scores \in [1..n -> RerankScores] :
                 LET reranked == rerank(unique_results, scores,
                                        fusion.rerank_top_k * 2)
                 IN fusion' = [fusion EXCEPT !.pc = "done",
                        !.unique_results = unique_results,
                        !.rerank_calls = @ \o <<[results |-> unique_results,
                                                 top_k |-> fusion.rerank_top_k * 2]>>,
                        !.retrieval_results =
                            [i \in 1..Len(reranked) |-> AsReranked(reranked[i])]]
          ELSE fusion' = [fusion EXCEPT !.pc = "done",
                 !.unique_results = unique_results,
                 !.retrieval_results =
                     [i \in 1..n |-> AsFused(unique_results[i])]]
    /\ RetrieveFrame

\* Respond on the request Retrieve has left: the context of the prompt
RespondContext ==
    /\ fusion.pc = "done"
    /\ fusion' = [fusion EXCEPT !.pc = "prompted",
                                !.context = build_context(fusion.retrieval_results)]
    /\ RetrieveFrame

NextRetrieve ==
    \/ VariantSearch
    \/ RetrieveFinish
    \/ RespondContext

SpecRetrieve == InitRetrieve /\ [][NextRetrieve]_vars

----------------------------------------------------------------------------
(* TicketStore and the ticket routes of the agent dashboard *)

\* tickets kept
MaxTickets == 2

\* TicketStatus
TicketStatuses ==
    {"ai_resolved", "pending_review", "in_progress", "resolved", "closed"}

\* the ids a route can be called with: the tickets and one id not stored
TicketIds == 1..(MaxTickets + 1)

\* TicketStore.get
HasTicket(store, ticket_id) == ticket_id \in 1..Len(store)

\* TicketStore.create: the ticket stored.  Of a ticket the fields that some
\* operation reads are kept: needs_escalation, status and read.
create(ai_resolved, needs_escalation) ==
    [needs_escalation |-> needs_escalation,
     status |-> IF ai_resolved /\ ~needs_escalation
                THEN "ai_resolved" ELSE "pending_review",
     read |-> FALSE]

\* TicketStore.mark_as_read
mark_as_read(store, ticket_id) ==
    IF HasTicket(store, ticket_id)
    THEN [store EXCEPT ![ticket_id].read = TRUE]
    ELSE store

\* TicketStore.assign
assign(store, ticket_id) ==
    IF HasTicket(store, ticket_id)
    THEN [store EXCEPT ![ticket_id].status = "in_progress"]
    ELSE store

\* variant of update_status: a ticket set back to pending_review is unread
\* again
update_status_reopens(store, ticket_id, status) ==
    IF HasTicket(store, ticket_id)
    THEN [store EXCEPT ![ticket_id].status = status,
                       ![ticket_id].read =
                           IF status = "pending_review" THEN FALSE ELSE @]
    ELSE store

\* TicketStore.update_status
update_status(store, ticket_id, status) ==
    IF HasTicket(store, ticket_id)
    THEN [store EXCEPT ![ticket_id].status = status]
    ELSE store

\* the condition of get_notification_count
counts_as_notification(t) ==
    t.needs_escalation /\ ~t.read /\ t.status = "pending_review"

\* TicketStore.get_notification_count: sum(1 for t in tickets if ...)
RECURSIVE get_notification_count(_)
get_notification_count(store) ==
    IF store = <<>> THEN 0
    ELSE (IF counts_as_notification(Head(store)) THEN 1 ELSE 0)
         + get_notification_count(Tail(store))

\* what a route answers with a ticket, and with 404
TicketResponse(store, ticket_id) ==
    [kind |-> "ticket", id |-> ticket_id, read |-> store[ticket_id].read]
NotFound == [kind |-> "404"]

InitTickets ==
    /\ cache = NewCache(MaxEntries)
    /\ now = 0
    /\ ops = 0
    /\ lastOp = NoOp
    /\ threads = [i \in Threads |-> NoCall]
    /\ InitRequest
    /\ calc = NoCalc
    /\ rotation = NoRotation
    /\ fusion = NoFusion
    /\ ticket_store = NoTicketStore

TicketFrame ==
    UNCHANGED <<cache, now, requestVars, ops, lastOp, threads, calc, rotation,
                fusion>>

\* a request answered: ticket_store.create
CreateTicket ==
    /\ Len(ticket_store.tickets) < MaxTickets
    /\ \E ai_resolved \in BOOLEAN, needs_escalation \in BOOLEAN :
         LET store == Append(ticket_store.tickets,
                             create(ai_resolved, needs_escalation))
         IN ticket_store' = [tickets |-> store,
                             response |-> TicketResponse(store, Len(store))]
    /\ TicketFrame

\* GET /tickets/notifications
GetNotifications ==
    /\ ticket_store' = [ticket_store EXCEPT !.response =
           [kind |-> "notifications",
            unread_count |-> get_notification_count(ticket_store.tickets)]]
    /\ TicketFrame

\* GET /tickets/{ticket_id}
GetTicket ==
    /\ \E ticket_id \in TicketIds :
         IF ~HasTicket(ticket_store.tickets, ticket_id)
         THEN ticket_store' = [ticket_store EXCEPT !.response = NotFound]
         ELSE LET store == mark_as_read(ticket_store.tickets, ticket_id)
              IN ticket_store' = [tickets |-> store,
                                  response |-> TicketResponse(store, ticket_id)]
    /\ TicketFrame

\* ticket_store.mark_as_read, assign and update_status, the operations the
\* dashboard calls on a ticket (PUT /tickets/{ticket_id}/status is assign,
\* when an agent is named, followed by update_status)
MarkAsRead ==
    /\ \E ticket_id \in TicketIds :
         ticket_store' = [ticket_store EXCEPT
                !.tickets = mark_as_read(@, ticket_id),
                !.response = [kind |-> "none"]]
    /\ TicketFrame

Assign ==
    /\ \E ticket_id \in TicketIds :
         ticket_store' = [ticket_store EXCEPT
                !.tickets = assign(@, ticket_id),
                !.response = [kind |-> "none"]]
    /\ TicketFrame

UpdateStatus ==
    /\ \E ticket_id \in TicketIds, status \in TicketStatuses :
         ticket_store' = [ticket_store EXCEPT
                !.tickets = update_status(@, ticket_id, status),
                !.response = [kind |-> "none"]]
    /\ TicketFrame

NextTickets ==
    \/ CreateTicket
    \/ GetNotifications
    \/ GetTicket
    \/ MarkAsRead
    \/ Assign
    \/ UpdateStatus

SpecTickets == InitTickets /\ [][NextTickets]_vars

----------------------------------------------------------------------------
(* Properties of the request workflow *)

Count(seq, x) == Cardinality({i \in 1..Len(seq) : seq[i] = x})

Ran(stage) == Count(stages, stage) > 0

LastStage == IF stages = <<>> THEN "" ELSE Last(stages)

InRetryBand(c) == c > RETRY_FLOOR /\ c < CONFIDENCE_THRESHOLD

AllAttemptsInRetryBand ==
    /\ attempts # <<>>
    /\ \A i \in 1..Len(attempts) : InRetryBand(attempts[i].confidence)

\* C1 as stated: when every Respond attempt left a confidence below the
\* threshold under which a retry is considered, Escalate is entered after
\* exactly MAX_RETRIES + 1 runs of Respond.
C1_RetryBoundAsStated ==
    ( /\ pc = "escalate"
      /\ LastStage = "respond"
      /\ \A i \in 1..Len(attempts) :
            attempts[i].confidence < CONFIDENCE_THRESHOLD )
    => Len(attempts) = MAX_RETRIES + 1

\* C1 amended: when every Respond attempt left a confidence above the 0.3
\* floor and below the 0.7 good threshold, Respond runs exactly
\* MAX_RETRIES + 1 times: until then the next stage is Respond again, and
\* after that it is Escalate, never QualityCheck.
C1_RetryBound ==
    AllAttemptsInRetryBand =>
        /\ Count(stages, "respond") = Len(attempts)
        /\ Len(attempts) <= MAX_RETRIES + 1
        /\ (Len(attempts) <= MAX_RETRIES => pc = "respond")
        /\ (Len(attempts) = MAX_RETRIES + 1 =>
                /\ ~Ran("quality_check")
                /\ (pc = "escalate" \/ Count(stages, "escalate") = 1))

C1_Witness ==
    /\ AllAttemptsInRetryBand
    /\ Len(attempts) = MAX_RETRIES + 1
    /\ pc = "escalate"

\* C2: a generation failure in Respond does not leave Respond as an
\* exception; it leaves confidence 0 and should_escalate set, it is the
\* request's last Respond, the next stage is Escalate, and QualityCheck is
\* never executed.
C2_GenerationFailureEscalates ==
    \A i \in 1..Len(attempts) :
        ~attempts[i].ok =>
            /\ i = Len(attempts)
            /\ attempts[i].confidence = 0
            /\ st.confidence = 0
            /\ st.should_escalate
            /\ ~Ran("quality_check")
            /\ pc # "raised"
            /\ LastStage \in {"respond", "escalate", "finalize"}
            /\ (LastStage = "respond" => pc = "escalate")

C2_Witness ==
    /\ pc = "escalate"
    /\ Len(attempts) = 2
    /\ attempts[1].ok
    /\ ~attempts[2].ok

\* C3: process() never lets an exception reach its caller.
C3_ProcessNeverRaises == pc # "raised"

\* C4: every request whose query was anonymized and that executed Finalize
\* had its response deanonymized by Finalize.
C4_FinalizeDeanonymizes ==
    ( /\ pc \in {"END", "returned"}
      /\ Ran("finalize")
      /\ st.current_query.anonymized )
    => deanonymized

\* C5: Finalize calls the cache put exactly for a request that was no cache
\* hit, is not marked escalated and has confidence at least 0.7; no request
\* that executed Escalate and no cache hit is ever written to the cache.
C5_CachePopulation ==
    /\ Ran("finalize") =>
          ( put_called <=> ( /\ ~st.cache_hit
                             /\ ~st.should_escalate
                             /\ st.confidence >= CACHE_MIN_CONFIDENCE ) )
    /\ put_called =>
          /\ Ran("finalize")
          /\ ~Ran("escalate")
          /\ cache_result.outcome # "hit"

C5_Witness ==
    /\ pc = "END"
    /\ put_called
    /\ Len(cache.entries) > 0

\* C6: after CacheCheck, a hit leaves the cached entry's response and
\* confidence in the request and leads to Finalize, a miss leads to Route;
\* a request with a cache hit executes no stage other than SecurityCheck,
\* CacheCheck and Finalize.
C6_CacheHitShortCircuit ==
    /\ (LastStage = "cache_check" /\ pc # "raised") =>
          IF cache_result.outcome = "hit"
          THEN /\ pc = "finalize"
               /\ st.cache_hit
               /\ st.response = cache_result.response
               /\ st.confidence = cache_result.metadata.confidence
               /\ \E i \in 1..Len(cache.entries) :
                     /\ cache.entries[i].response = st.response
                     /\ cache.entries[i].metadata.confidence = st.confidence
                     /\ cache.entries[i].hits > 0
          ELSE /\ pc = "route"
               /\ ~st.cache_hit
    /\ st.cache_hit <=> cache_result.outcome = "hit"
    /\ cache_result.outcome = "hit" =>
          \A i \in 1..Len(stages) :
              stages[i] \in {"security_check", "cache_check", "finalize"}

C6_Witness ==
    /\ pc = "finalize"
    /\ LastStage = "cache_check"
    /\ cache_result.outcome = "hit"

\* C7 as stated: a first Respond that leaves a confidence below the 0.3
\* floor is followed by another Respond, and the escalation that follows
\* carries a reason that mentions the confidence.
C7_ScenarioAsStated ==
    (attempts # <<>> /\ attempts[1].confidence < RETRY_FLOOR) =>
        /\ ((Len(attempts) = 1 /\ LastStage = "respond") => pc = "respond")
        /\ (LastStage = "escalate" => st.escalation_reason = ReasonLowConfidence)

\* C7 amended: a first Respond that leaves a confidence at or below the 0.3
\* floor is not repeated although retries remain: the next stage is
\* Escalate, with the retry counter still 0; a reason that mentions the
\* confidence is set by QualityCheck alone, so not on this path.
C7_BelowFloorEscalatesAtOnce ==
    /\ (attempts # <<>> /\ attempts[1].confidence <= RETRY_FLOOR) =>
          /\ Len(attempts) = 1
          /\ st.retry_count = 0
          /\ (LastStage = "respond" => pc = "escalate")
          /\ ~Ran("quality_check")
    /\ st.escalation_reason = ReasonLowConfidence => Ran("quality_check")

C7_Witness ==
    /\ pc = "finalize"
    /\ LastStage = "escalate"
    /\ Len(attempts) = 1
    /\ attempts[1].confidence <= RETRY_FLOOR
    /\ st.escalation_reason # ReasonLowConfidence

\* C8: the retry counter stays within 0..MAX_RETRIES; within a request no
\* step lowers it, and it changes exactly on the edge from Respond back to
\* Respond, by one.
C8_RetryCounter ==
    /\ [](st.retry_count \in 0..MAX_RETRIES)
    /\ [][ pc' # "security_check" =>
             IF pc = "respond" /\ pc' = "respond"
             THEN st'.retry_count = st.retry_count + 1
             ELSE st'.retry_count = st.retry_count ]_vars

C8_Witness ==
    /\ st.retry_count = MAX_RETRIES
    /\ pc = "escalate"

\* C9 as stated: every run that returns executed Finalize last.
C9_FinalizeLastAsStated ==
    pc = "returned" => LastStage = "finalize"

\* C9 amended: every run ends after at most MAX_RETRIES + 7 stages and never
\* stops midway; a run that returns executed Finalize last unless
\* SecurityCheck blocked it, and then SecurityCheck was its only stage; a
\* run that an exception ends stops at the stage that raised.
C9_RunsTerminate ==
    /\ Len(stages) <= MAX_RETRIES + 7
    /\ Count(stages, "respond") <= MAX_RETRIES + 1
    /\ (~Idle => ENABLED Next)
    /\ pc = "returned" =>
          \/ LastStage = "finalize"
          \/ (stages = <<"security_check">> /\ req.score >= BLOCK_THRESHOLD)
    /\ pc = "raised" => LastStage \in {"cache_check", "retrieve", "finalize"}

C9_Witness ==
    /\ pc = "returned"
    /\ Len(stages) = MAX_RETRIES + 7
    /\ LastStage = "finalize"

\* every started request reaches the end of process()
RequestsEnd == (pc = "security_check") ~> Idle

\* the running or finished request was stopped by SecurityCheck
Blocked ==
    /\ stages = <<"security_check">>
    /\ pc \in {"END", "returned"}

\* the running or finished request went on from SecurityCheck to CacheCheck
Continued == pc = "cache_check" \/ Ran("cache_check")

C19_BlockedRunsNothingElse ==
    (pc # "idle" /\ req.score >= BLOCK_THRESHOLD) =>
        /\ pc \in {"security_check", "END", "returned"}
        /\ stages = IF pc = "security_check" THEN <<>>
                    ELSE <<"security_check">>
        /\ cache_result = NoLookup
        /\ ~put_called
        /\ attempts = <<>>
        /\ st.retrieval_results = <<>>
        /\ ~st.cache_hit
        /\ pc # "security_check" => st.response = Refusal
        /\ pc = "returned" =>
              /\ result.kind = "returned"
              /\ result.response = Refusal
              /\ result.escalated
              /\ ~result.cache_hit

C19_Witness ==
    /\ pc = "returned"
    /\ req.score >= BLOCK_THRESHOLD
    /\ result.response = Refusal
    /\ \E i \in 1..Len(cache.entries) :
          cache.entries[i].query = req.query

\* urgency above 0.9 or sentiment below 0.2
BeyondLimits == st.urgency > 90 \/ st.sentiment < 20

\* C20 as stated: the stage after Route is Escalate exactly when urgency
\* is above 0.9 or sentiment is below 0.2, and Retrieve in every other case.
C20_RouteEscalatesAsStated ==
    LastStage = "route" =>
        /\ pc = "escalate" <=> BeyondLimits
        /\ pc = "retrieve" <=> ~BeyondLimits

\* C20 amended: the stage after Route is Escalate exactly when urgency is
\* above 0.9, or sentiment is below 0.2, or the query holds the word
\* "urgent" or "emergency"; Retrieve and Respond are then never executed.
\* In every other case the stage after Route is Retrieve.
C20_RouteEscalates ==
    Ran("route") =>
        IF BeyondLimits \/ st.urgent_word
        THEN /\ ~Ran("retrieve")
             /\ ~Ran("respond")
             /\ attempts = <<>>
             /\ pc = "escalate" \/ Ran("escalate")
             /\ LastStage = "route" => pc = "escalate"
        ELSE /\ ~(LastStage = "route" /\ pc = "escalate")
             /\ pc = "retrieve" \/ Ran("retrieve")
             /\ LastStage = "route" => pc = "retrieve"

C20_Witness ==
    /\ pc = "returned"
    /\ Ran("route")
    /\ st.urgency > 90
    /\ ~st.urgent_word
    /\ LastStage = "finalize"
    /\ Count(stages, "escalate") = 1

\* the priorities get_priority gives
Priorities == {"critical", "high", "medium", "normal"}

\* the state right after Escalate has run
JustEscalated == LastStage = "escalate"

\* the path the request took into Escalate
EscalatedFromRoute == JustEscalated /\ ~Ran("respond")
EscalatedFromFailure ==
    JustEscalated /\ attempts # <<>> /\ ~Last(attempts).ok
EscalatedFromRetries ==
    JustEscalated /\ attempts # <<>> /\ Last(attempts).ok
                  /\ ~Ran("quality_check")
EscalatedFromQualityCheck == JustEscalated /\ Ran("quality_check")

\* C21: after Escalate, on every path into it (from Route, a failed Respond,
\* exhausted retries, or QualityCheck), the request is marked escalated,
\* carries a non-empty escalation reason and a priority, its response is the
\* handoff notice with the answer so far included, and the next stage is
\* Finalize.
C21_EscalateOutcome ==
    JustEscalated =>
        /\ st.should_escalate
        /\ st.escalation_reason # ReasonNone
        /\ escalation_queue # <<>>
        /\ Last(escalation_queue).priority \in Priorities
        /\ Last(escalation_queue).escalation_reason = st.escalation_reason
        /\ st.response.kind = "handoff"
        /\ Ran("respond") => st.response.partial \in {"generated", "apology"}
        /\ pc = "finalize"

\* what does hold after Escalate: everything but the reason on the path
\* from a failed Respond
C21_EscalateOutcomeButReason ==
    JustEscalated =>
        /\ st.should_escalate
        /\ st.escalation_reason = ReasonNone <=> EscalatedFromFailure
        /\ EscalatedFromRoute => st.escalation_reason = ReasonUrgent
        /\ EscalatedFromRetries => st.escalation_reason = ReasonManual
        /\ EscalatedFromQualityCheck => st.escalation_reason = ReasonLowConfidence
        /\ escalation_queue # <<>>
        /\ Last(escalation_queue).priority \in Priorities
        /\ st.response.kind = "handoff"
        /\ Ran("respond") => st.response.partial \in {"generated", "apology"}
        /\ pc = "finalize"

\* the stages that come before generation
OnceOnlyStages == {"security_check", "cache_check", "route", "retrieve"}

\* the order in which the graph lets one stage follow another
FollowsInOrder(a, b) ==
    CASE a = "security_check" -> b = "cache_check"
      [] a = "cache_check" -> b \in {"route", "finalize"}
      [] a = "route" -> b \in {"retrieve", "escalate"}
      [] a = "retrieve" -> b = "respond"
      [] a = "respond" -> b \in {"respond", "quality_check", "escalate"}
      [] a = "quality_check" -> b \in {"escalate", "finalize"}
      [] a = "escalate" -> b = "finalize"
      [] OTHER -> FALSE

\* C22: the stages of a request run one after another in the order of the
\* graph; Retrieve is executed at most once and before the first Respond;
\* a retry re-executes only Respond: SecurityCheck, CacheCheck, Route and
\* Retrieve are never executed twice in one request.
C22_RetryRepeatsOnlyRespond ==
    /\ \A x \in OnceOnlyStages : Count(stages, x) <= 1
    /\ \A i \in 1..Len(stages) :
          /\ i > 1 => FollowsInOrder(stages[i - 1], stages[i])
          /\ stages[i] = "respond" =>
                /\ \E j \in 1..(i - 1) : stages[j] = "retrieve"
                /\ \A j \in i..Len(stages) : stages[j] \notin OnceOnlyStages
    /\ (stages # <<>> /\ pc \notin {"END", "returned", "raised"}) =>
          FollowsInOrder(Last(stages), pc)
    /\ st.retry_count > 0 =>
          /\ Count(stages, "respond") >= st.retry_count
          /\ Count(stages, "retrieve") = 1

C22_Witness ==
    /\ pc = "returned"
    /\ st.retry_count = MAX_RETRIES
    /\ Count(stages, "respond") = MAX_RETRIES + 1
    /\ Count(stages, "retrieve") = 1
    /\ Count(stages, "route") = 1

\* C23: QualityCheck is executed only where the confidence set by the
\* immediately preceding Respond is at least CONFIDENCE_THRESHOLD (0.7);
\* when it is lower, the retry or the escalation is decided without
\* entering QualityCheck.
C23_QualityCheckNeedsConfidence ==
    /\ LastStage = "respond" =>
          /\ attempts # <<>>
          /\ pc = "quality_check" <=>
                Last(attempts).confidence >= CONFIDENCE_THRESHOLD
          /\ Last(attempts).confidence < CONFIDENCE_THRESHOLD =>
                pc \in {"respond", "escalate"}
    /\ pc = "quality_check" =>
          /\ LastStage = "respond"
          /\ Last(attempts).ok
          /\ st.confidence = Last(attempts).confidence
    /\ \A i \in 1..Len(stages) :
          stages[i] = "quality_check" =>
             /\ i > 1 /\ stages[i - 1] = "respond"
             /\ Last(attempts).confidence >= CONFIDENCE_THRESHOLD

C23_Witness ==
    /\ LastStage = "quality_check"
    /\ Last(attempts).confidence = CONFIDENCE_THRESHOLD
    /\ Len(attempts) = 1

\* the confidence QualityCheck arrives at: a response shorter than 20
\* characters caps it at 0.3, an empty retrieval result list at 0.4
AfterPenalties(c, short, empty) ==
    LET c1 == IF short /\ c > 30 THEN 30 ELSE c
    IN IF empty /\ c1 > 40 THEN 40 ELSE c1

PenalizedConfidence ==
    AfterPenalties(Last(attempts).confidence, st.response.short,
                   st.retrieval_results = <<>>)

\* C24: from QualityCheck the next stage is Escalate exactly when the
\* confidence after the penalties is below ESCALATION_THRESHOLD (0.5), with
\* a low-confidence message as the reason; otherwise it is Finalize with
\* the request not escalated.
C24_QualityCheckDecides ==
    LastStage = "quality_check" =>
        /\ st.confidence = PenalizedConfidence
        /\ pc = "escalate" <=> PenalizedConfidence < ESCALATION_THRESHOLD
        /\ pc = "finalize" <=> PenalizedConfidence >= ESCALATION_THRESHOLD
        /\ pc = "escalate" =>
              /\ st.should_escalate
              /\ st.escalation_reason = ReasonLowConfidence
        /\ pc = "finalize" =>
              /\ ~st.should_escalate
              /\ st.escalation_reason = ReasonNone

C24_Witness ==
    /\ LastStage = "quality_check"
    /\ pc = "escalate"
    /\ st.response.short
    /\ Last(attempts).confidence >= CONFIDENCE_THRESHOLD
    /\ st.confidence < ESCALATION_THRESHOLD

C24_WitnessFinalize ==
    /\ LastStage = "quality_check"
    /\ pc = "finalize"
    /\ ~st.response.short

\* C25 as stated: after every Respond whose generation succeeded, the
\* confidence lies in [0.5, 0.95] for every retrieval state, an empty
\* retrieval result list included.
C25_ConfidenceRangeAsStated ==
    calc.done => calc.confidence >= 50 /\ calc.confidence <= 95

\* C25 amended: after every Respond whose generation succeeded, the
\* confidence lies in [0.5, 0.95] when the retrieval result list is not
\* empty, and is exactly 0.4 when it is empty.
C25_ConfidenceRange ==
    calc.done =>
        IF calc.results = <<>>
        THEN calc.confidence = 40
        ELSE calc.confidence >= 50 /\ calc.confidence <= 95

C25_Witness ==
    /\ calc.done
    /\ calc.results = <<>>
    /\ calc.confidence = 40

C25_WitnessFloor ==
    /\ calc.done
    /\ calc.results # <<>>
    /\ calc.results[1] < 30
    /\ calc.confidence = 50

\* C26 as stated: a transient failure (quota, rate limit) of generation is
\* retried at most once within one Respond: the model is invoked at most
\* twice per Respond, whatever the size of the key pool.
C26_AtMostTwoInvocationsAsStated == rotation.invocations <= 2

\* C26 amended: a quota or rate-limit failure of generation is retried
\* within one Respond once per further key of the pool: the model is
\* invoked at most min(4, size of the pool) times per Respond (once with a
\* single key), each time after the first following a quota or rate-limit
\* failure; a failure of any other kind is not retried.
C26_InvocationsPerRespond ==
    /\ rotation.invocations <= Min(MAX_KEYS_TRIED, rotation.pool)
    /\ rotation.pool = 1 => rotation.invocations <= 1
    /\ rotation.invocations > 1 => rotation.keys_tried >= rotation.invocations - 1
    /\ (rotation.pc = "loop" /\ rotation.invocations > 0) =>
          rotation.last = "quota"
    /\ rotation.last = "other" => rotation.pc = "raised"
    /\ rotation.current_key_index \in 0..(rotation.pool - 1)

C26_Witness ==
    /\ rotation.pc = "raised"
    /\ rotation.pool > MAX_KEYS_TRIED
    /\ rotation.invocations = MAX_KEYS_TRIED
    /\ rotation.last = "quota"

\* C36: every request that returns without a cache hit and without being
\* escalated came through Finalize with confidence >= 0.7 and was written
\* to the semantic cache.
C36_AcceptedIsCached ==
    (pc = "returned" /\ ~result.cache_hit /\ ~result.escalated) =>
        /\ Ran("finalize")
        /\ result.confidence >= CONFIDENCE_THRESHOLD
        /\ put_called
        /\ \E i \in 1..Len(cache.entries) :
              /\ deanonymize(cache.entries[i].response)
                   = deanonymize(result.response)
              /\ cache.entries[i].metadata.confidence = result.confidence

\* the second request is accepted at the threshold and written to a cache
\* that holds an entry already
C36_Witness ==
    /\ pc = "returned"
    /\ nreq = 2
    /\ ~result.cache_hit
    /\ ~result.escalated
    /\ result.confidence = CONFIDENCE_THRESHOLD
    /\ put_called
    /\ Len(cache.entries) = 2

\* C37: a request whose first Respond gives a confidence below the good
\* threshold ends escalated: every later Respond gives a confidence below
\* the threshold too, the request never reaches the quality check, is never
\* written to the cache, and returns with escalated = true.
C37_LowFirstAttemptEscalates ==
    (attempts # <<>> /\ attempts[1].confidence < CONFIDENCE_THRESHOLD) =>
        /\ \A i \in 1..Len(attempts) :
              attempts[i].confidence < CONFIDENCE_THRESHOLD
        /\ pc # "quality_check"
        /\ ~Ran("quality_check")
        /\ ~put_called
        /\ pc # "raised"
        /\ pc \in {"finalize", "END", "returned"} =>
              (st.should_escalate /\ Ran("escalate"))
        /\ pc = "returned" => result.escalated

\* a first attempt in the retry band, retried to the limit and escalated
C37_Witness ==
    /\ pc = "returned"
    /\ Len(attempts) = MAX_RETRIES + 1
    /\ attempts[1].ok
    /\ InRetryBand(attempts[1].confidence)
    /\ attempts[Len(attempts)].ok
    /\ result.escalated

HandoffsOf(n) ==
    {i \in 1..Len(escalation_queue) : escalation_queue[i].ticket_id
                                         = handoff_ticket_id(n)}

\* C38 as stated: no request adds more than one handoff package to the
\* escalation queue, and every request whose result has escalated = true
\* has added exactly one, whose ticket identifier its response contains.
C38_EveryEscalatedHasHandoffAsStated ==
    /\ \A n \in 1..MaxRequests : Cardinality(HandoffsOf(n)) <= 1
    /\ (pc = "returned" /\ result.escalated) =>
          /\ Cardinality(HandoffsOf(nreq)) = 1
          /\ result.response.kind = "handoff"
          /\ \A i \in HandoffsOf(nreq) :
                result.response.ticket = escalation_queue[i].ticket_id

\* C38 amended: no request adds more than one handoff package to the
\* escalation queue; every request whose result has escalated = true and
\* that the security check did not block has added exactly one, whose
\* ticket identifier its response contains; a blocked request returns
\* escalated = true with the refusal and has added none.
C38_OneHandoffPerEscalation ==
    /\ \A n \in 1..MaxRequests : Cardinality(HandoffsOf(n)) <= 1
    /\ (pc = "returned" /\ result.escalated /\ ~Blocked) =>
          /\ Cardinality(HandoffsOf(nreq)) = 1
          /\ result.response.kind = "handoff"
          /\ \A i \in HandoffsOf(nreq) :
                result.response.ticket = escalation_queue[i].ticket_id
    /\ (pc = "returned" /\ Blocked) =>
          /\ result.escalated
          /\ HandoffsOf(nreq) = {}
          /\ result.response = Refusal
    /\ (pc = "returned" /\ ~result.escalated) => HandoffsOf(nreq) = {}

\* two requests escalated one after the other: two packages, the second
\* request's notice names the second
C38_Witness ==
    /\ pc = "returned"
    /\ nreq = 2
    /\ result.escalated
    /\ ~Blocked
    /\ Len(escalation_queue) = 2
    /\ result.response.ticket = escalation_queue[2].ticket_id
    /\ escalation_queue[1].ticket_id # escalation_queue[2].ticket_id

\* a blocked request after an escalated one
C38_WitnessBlocked ==
    /\ pc = "returned"
    /\ nreq = 2
    /\ Blocked
    /\ result.escalated
    /\ Len(escalation_queue) = 1

\* C34: the response of a request never holds a PII value anonymized out
\* of another request's query, and never an un-restored token of another
\* request.
C34_NoForeignValue ==
    pc = "returned" => result.response.restored_of \in {0, nreq}

C34_NoForeignToken ==
    pc = "returned" => result.response.token_of \in {0, nreq}

C34_NoForeignPII == C34_NoForeignValue /\ C34_NoForeignToken

\* the tickets that need escalation, are unread and pending review
Notifying(store) ==
    {i \in 1..Len(store) :
        /\ store[i].needs_escalation
        /\ ~store[i].read
        /\ store[i].status = "pending_review"}

\* C40, the count: the notification count is the number of tickets that
\* need escalation, are unread and have status pending_review, and the
\* ticket a GET returned is read and does not count.
C40_CountIsUnreadPending ==
    /\ get_notification_count(ticket_store.tickets)
         = Cardinality(Notifying(ticket_store.tickets))
    /\ ticket_store.response.kind = "notifications" =>
          ticket_store.response.unread_count
            = Cardinality(Notifying(ticket_store.tickets))
    /\ (ticket_store.response.kind = "ticket"
          /\ ticket_store.response.read) =>
          ticket_store.response.id \notin Notifying(ticket_store.tickets)

\* C40, opening: GET /tickets/{id} on a stored ticket leaves it read
C40_OpeningMarksRead ==
    [][GetTicket =>
         (ticket_store'.response.kind = "ticket" =>
            /\ ticket_store'.tickets[ticket_store'.response.id].read
            /\ ticket_store'.response.read)]_vars

\* C40, afterwards: a ticket that is read stays read under every operation,
\* so it never counts again
C40_ReadNeverCountsAgain ==
    [][\A i \in 1..Len(ticket_store.tickets) :
          ticket_store.tickets[i].read =>
             /\ i \in 1..Len(ticket_store'.tickets)
             /\ ticket_store'.tickets[i].read
             /\ i \notin Notifying(ticket_store'.tickets)]_vars

\* C40: the notification count always equals the number of tickets that
\* need escalation, are unread and have status pending_review; opening a
\* ticket marks it read, and after any later assign, update_status and
\* mark_as_read that ticket never counts as a notification again.
C40_NotificationsClearedByOpening ==
    /\ []C40_CountIsUnreadPending
    /\ C40_OpeningMarksRead
    /\ C40_ReadNeverCountsAgain

\* a ticket read and in status pending_review beside an unread one: the
\* count is one
C40_Witness ==
    /\ Len(ticket_store.tickets) = 2
    /\ ticket_store.tickets[1].needs_escalation
    /\ ticket_store.tickets[1].read
    /\ ticket_store.tickets[1].status = "pending_review"
    /\ 2 \in Notifying(ticket_store.tickets)
    /\ ticket_store.response = [kind |-> "notifications", unread_count |-> 1]

C35_WitnessOtherError ==
    /\ rotation.pc = "raised"
    /\ Len(rotation.trace) = 2
    /\ rotation.raised = [kind |-> "other", attempt |-> 2]
    /\ rotation.current_key_index = rotation.trace[2].key

----------------------------------------------------------------------------
(* Properties of the fusion *)

\* where a chunk id occurs in the lists: <<list, position>>, positions
\* counted from 1
Occurrences(ls, c) ==
    {o \in (1..Len(ls)) \X (1..MaxRank) :
        o[2] <= Len(ls[o[1]]) /\ ls[o[1]][o[2]].chunk_id = c}

ChunkIdsIn(ls) ==
    {ls[l][r].chunk_id : <<l, r>> \in {o \in (1..Len(ls)) \X (1..MaxRank) :
                                          o[2] <= Len(ls[o[1]])}}

\* 1/(k + rank + 1) for the 0-based rank of a position
Share(position) == RankDenominator \div (RRF_K + position)

RECURSIVE SumShares(_)
SumShares(occ) ==
    IF occ = {} THEN 0
    ELSE LET o == CHOOSE x \in occ : TRUE
         IN Share(o[2]) + SumShares(occ \ {o})

\* a fused result without its fused score
Native(f) == [chunk_id |-> f.chunk_id, copy |-> f.copy, score |-> f.score,
              source |-> f.source]

FirstInEveryList(ls, c) ==
    \A l \in 1..Len(ls) : ls[l] # <<>> /\ ls[l][1].chunk_id = c

\* no list ranks one chunk id twice
ListsRankOnce(ls) ==
    \A l \in 1..Len(ls) : \A i, j \in 1..Len(ls[l]) :
        i # j => ls[l][i].chunk_id # ls[l][j].chunk_id

\* C30: a passage at rank 0 in every one of the N lists gets the fused
\* score N * 1/(k + 1), and no passage in a fused output of N lists has a
\* higher score.
C30_TopRankBound ==
    fusion.pc = "fused" =>
        \A i \in 1..Len(fusion.fused) :
            LET f == fusion.fused[i]
                N == Len(fusion.lists)
            IN /\ f.fused_score <= N * Share(1)
               /\ FirstInEveryList(fusion.lists, f.chunk_id) =>
                     f.fused_score = N * Share(1)

\* what does hold: the same, of lists that rank no chunk id twice
C30_TopRankBoundRankedOnce ==
    (fusion.pc = "fused" /\ ListsRankOnce(fusion.lists)) =>
        \A i \in 1..Len(fusion.fused) :
            LET f == fusion.fused[i]
                N == Len(fusion.lists)
            IN /\ f.fused_score <= N * Share(1)
               /\ FirstInEveryList(fusion.lists, f.chunk_id) =>
                     f.fused_score = N * Share(1)

\* the first occurrence of a chunk id in the order the lists are read:
\* list by list, rank by rank
FirstOccurrence(ls, c) ==
    CHOOSE o \in Occurrences(ls, c) :
        \A x \in Occurrences(ls, c) :
            o[1] < x[1] \/ (o[1] = x[1] /\ o[2] <= x[2])

ReadBefore(o, x) == o[1] < x[1] \/ (o[1] = x[1] /\ o[2] < x[2])

\* C31: the fused output is sorted by non-increasing fused score, and
\* passages with equal fused score appear in the order of their first
\* occurrence in the input lists.
C31_SortedTiesByFirstOccurrence ==
    fusion.pc = "fused" =>
        \A i, j \in 1..Len(fusion.fused) :
            i < j =>
               /\ fusion.fused[i].fused_score >= fusion.fused[j].fused_score
               /\ fusion.fused[i].fused_score = fusion.fused[j].fused_score =>
                     ReadBefore(FirstOccurrence(fusion.lists, fusion.fused[i].chunk_id),
                                FirstOccurrence(fusion.lists, fusion.fused[j].chunk_id))

\* two passages of equal fused score, and one of higher score first seen
\* after another
C31_Witness ==
    /\ fusion.pc = "fused"
    /\ Len(fusion.fused) = 2
    /\ Len(fusion.lists) = 2
    /\ fusion.fused[1].fused_score = fusion.fused[2].fused_score
    /\ Len(fusion.lists[1]) = 2
    /\ fusion.lists[1][1].chunk_id = fusion.fused[1].chunk_id

C31_WitnessReordered ==
    /\ fusion.pc = "fused"
    /\ Len(fusion.fused) = 2
    /\ fusion.fused[1].fused_score > fusion.fused[2].fused_score
    /\ fusion.lists[1] # <<>>
    /\ fusion.lists[1][1].chunk_id = fusion.fused[2].chunk_id

\* C28: with several query variants (and the hypothetical document), the
\* fused score of a passage aggregates the rank contributions of every
\* list, across retrievers and variants, not only those of the first
\* variant that returned it.
C28_AggregatesAcrossVariants ==
    fusion.pc = "done" =>
        \A i \in 1..Len(fusion.retrieval_results) :
            LET r == fusion.retrieval_results[i]
            IN r.kind = "fused_score" =>
                 r.score = SumShares(Occurrences(fusion.all_lists, r.chunk_id))

\* the lists of the first search whose output holds the chunk id
FirstSearchWith(c) ==
    LET with(k) == Occurrences(SubSeq(fusion.all_lists, 2 * k - 1, 2 * k), c)
        first == CHOOSE k \in 1..fusion.searched :
                    /\ with(k) # {}
                    /\ \A m \in 1..(k - 1) : with(m) = {}
    IN SubSeq(fusion.all_lists, 2 * first - 1, 2 * first)

\* what does hold when every search returns what it fused (the default
\* RERANK_TOP_K): the score is that of the first search that returned the
\* passage
C28_ScoreOfFirstVariant ==
    (fusion.pc = "done" /\ fusion.rerank_top_k > MaxDepth * 2) =>
        \A i \in 1..Len(fusion.retrieval_results) :
            LET r == fusion.retrieval_results[i]
            IN r.kind = "fused_score" =>
                 r.score = SumShares(Occurrences(FirstSearchWith(r.chunk_id),
                                                 r.chunk_id))

\* C29: no two results of a fused output share a chunk id, and after
\* Retrieve no two entries of the retrieval results share a chunk id.
C29_NoSharedChunkId ==
    /\ \A i, j \in 1..Len(fusion.fused) :
          i # j => fusion.fused[i].chunk_id # fusion.fused[j].chunk_id
    /\ fusion.pc = "done" =>
          \A i, j \in 1..Len(fusion.retrieval_results) :
             i # j => fusion.retrieval_results[i].chunk_id
                        # fusion.retrieval_results[j].chunk_id

\* a chunk returned by both retrievers to two searches is one entry of the
\* retrieval results
C29_Witness ==
    /\ fusion.pc = "done"
    /\ fusion.searched = 2
    /\ \E c \in 1..2 :
          /\ Cardinality(Occurrences(fusion.all_lists, c)) = 4
          /\ Cardinality({i \in 1..Len(fusion.retrieval_results) :
                            fusion.retrieval_results[i].chunk_id = c}) = 1

\* C32: a search on the sparse or the dense index before any document was
\* indexed returns an empty list and raises no error, the hybrid search
\* then returns an empty list, and Respond builds its prompt with the fixed
\* "No relevant documentation found." context.
C32_UnindexedSearchIsEmpty ==
    /\ (~fusion.dense_indexed /\ fusion.searched > 0) => fusion.lists[1] = <<>>
    /\ (~fusion.sparse_indexed /\ fusion.searched > 0) => fusion.lists[2] = <<>>
    /\ (~fusion.dense_indexed /\ ~fusion.sparse_indexed) =>
          /\ fusion.pc # "raised"
          /\ fusion.fused = <<>>
          /\ fusion.all_results = <<>>
          /\ fusion.retrieval_results = <<>>
          /\ fusion.pc = "prompted" => fusion.context = NoDocumentation

C32_Witness ==
    /\ fusion.pc = "prompted"
    /\ ~fusion.dense_indexed
    /\ ~fusion.sparse_indexed
    /\ fusion.searched = 2
    /\ fusion.context = NoDocumentation

NonIncreasingScores(results) ==
    \A i, j \in 1..Len(results) : i < j => results[i].score >= results[j].score

\* C33: the reranker is invoked only when the deduplicated candidates are
\* more than RERANK_TOP_K; its output is sorted by non-increasing rerank
\* score, holds only passages of its input and at most top_k of them.
C33_RerankOnlyLargeSets ==
    /\ Len(fusion.rerank_calls) <= 1
    /\ \A c \in 1..Len(fusion.rerank_calls) :
          LET call == fusion.rerank_calls[c]
              out == fusion.retrieval_results
          IN /\ call.results = fusion.unique_results
             /\ Len(call.results) > fusion.rerank_top_k
             /\ \A i \in 1..Len(out) : out[i].kind = "rerank_score"
             /\ NonIncreasingScores(out)
             /\ \A i \in 1..Len(out) :
                   \E j \in 1..Len(call.results) :
                      /\ call.results[j].chunk_id = out[i].chunk_id
                      /\ call.results[j].copy = out[i].copy
             /\ Len(out) <= call.top_k

\* three candidates reranked to the two of top_k, with different scores
C33_Witness ==
    /\ fusion.pc = "done"
    /\ Len(fusion.rerank_calls) = 1
    /\ Len(fusion.rerank_calls[1].results) = 3
    /\ fusion.rerank_calls[1].top_k = 2
    /\ Len(fusion.retrieval_results) = 2
    /\ fusion.retrieval_results[1].score > fusion.retrieval_results[2].score
    /\ fusion.retrieval_results[1].chunk_id = fusion.rerank_calls[1].results[3].chunk_id

C39_RerankedSortedByScore ==
    (fusion.pc \in {"done", "prompted"} /\ fusion.rerank_calls # <<>>) =>
        NonIncreasingScores(fusion.retrieval_results)

----------------------------------------------------------------------------
(* Properties of the cache *)

\* C10: the similarity index holds exactly one vector per entry, at the
\* entry's position.
C10_IndexAligned ==
    /\ Len(cache.index) = Len(cache.entries)
    /\ \A i \in 1..Len(cache.entries) :
          cache.index[i] = cache.entries[i].embedding

\* the last direct operation was a get that returned (hit or miss)
CompletedGet == lastOp.op = "get" /\ lastOp.outcome \in {"hit", "miss"}

GetHit == lastOp.op = "get" /\ lastOp.outcome = "hit"

\* the operation was called on a cache of one entry, indexed as it should be
OneEntryBefore ==
    /\ Len(lastOp.before.entries) = 1
    /\ lastOp.before.index = <<lastOp.before.entries[1].embedding>>

\* the query of the operation is within the cache threshold of that entry
SimilarToFirstBefore ==
    Sim(Embed(lastOp.query), lastOp.before.entries[1].embedding)
        >= SEMANTIC_CACHE_THRESHOLD

\* C11 as stated: a get returns a hit only for an entry whose age is
\* strictly less than the TTL, so an entry created at t0 is no longer
\* returned at t0 + TTL.
C11_HitBeforeTTLAsStated ==
    GetHit => lastOp.entry_age < TTL

\* C11 amended: a get returns a hit only for an entry whose age is at most
\* the TTL.  The entry the lookup selects (created or last refreshed at t0)
\* is returned at any time up to and including t0 + TTL and at no later
\* time; the entry returned is in the cache with the creation time the hit
\* was judged by.
C11_HitWithinTTL ==
    /\ GetHit =>
          /\ lastOp.entry_age \in 0..TTL
          /\ \E i \in 1..Len(cache.entries) :
                /\ cache.entries[i].query = lastOp.original_query
                /\ cache.entries[i].response = lastOp.response
                /\ lastOp.t - cache.entries[i].created_at = lastOp.entry_age
    /\ (CompletedGet /\ lastOp.entry_age # NoAge) =>
          (lastOp.outcome = "hit" <=> lastOp.entry_age <= TTL)
    /\ (CompletedGet /\ OneEntryBefore /\ SimilarToFirstBefore) =>
          (lastOp.outcome = "hit" <=>
               lastOp.t - lastOp.before.entries[1].created_at <= TTL)

C11_Witness ==
    /\ GetHit
    /\ lastOp.entry_age = TTL
    /\ TTL > 0

\* the cached entry nearest to the query of the last operation, among the
\* entries the cache held when it was called
NearestBefore ==
    BestIdx(EmbeddingsOf(lastOp.before.entries), Embed(lastOp.query))

NearestBeforeSim ==
    Sim(lastOp.before.entries[NearestBefore].embedding, Embed(lastOp.query))

NearestBeforeLive ==
    /\ lastOp.before.entries # <<>>
    /\ lastOp.t - lastOp.before.entries[NearestBefore].created_at <= TTL

\* the index of the cache the operation was called on held one vector per
\* entry, in the order of the entries
AlignedBefore == lastOp.before.index = EmbeddingsOf(lastOp.before.entries)

\* C12: when the cached entry nearest to the query is not expired, a get
\* is a hit if that entry's similarity is at or above the threshold, and a
\* miss if it is below.
C12_ThresholdDecidesHit ==
    (CompletedGet /\ NearestBeforeLive) =>
        (lastOp.outcome = "hit" <=>
             NearestBeforeSim >= SEMANTIC_CACHE_THRESHOLD)

\* the same, for lookups in a cache whose index matched its entries
C12_ThresholdDecidesHitAligned ==
    AlignedBefore => C12_ThresholdDecidesHit

\* the last direct operation was a put that returned
CompletedPut == lastOp.op = "put" /\ lastOp.outcome \in {"updated", "inserted"}

\* the entry a put of the last operation's arguments creates
PutEntry ==
    CacheEntry(lastOp.query, lastOp.response, Embed(lastOp.query),
               lastOp.metadata, lastOp.t)

\* C13: a put whose nearest existing entry has similarity at least 0.98
\* overwrites that entry's response and metadata and refreshes its
\* created_at, and changes nothing else in the entries; any other put
\* appends one new entry.
C13_UpdateInPlaceOrAppend ==
    CompletedPut =>
        IF lastOp.before.entries # <<>> /\ NearestBeforeSim >= UPDATE_THRESHOLD
        THEN cache.entries =
                [lastOp.before.entries EXCEPT
                    ![NearestBefore].response = lastOp.response,
                    ![NearestBefore].metadata = lastOp.metadata,
                    ![NearestBefore].created_at = lastOp.t]
        ELSE /\ cache.entries # <<>>
             /\ Last(cache.entries) = PutEntry
             /\ \A i \in 1..(Len(cache.entries) - 1) :
                   \E j \in 1..Len(lastOp.before.entries) :
                       cache.entries[i] = lastOp.before.entries[j]

\* the same, for puts into a cache whose index matched its entries
C13_UpdateInPlaceOrAppendAligned ==
    AlignedBefore => C13_UpdateInPlaceOrAppend

\* the entries of the cache the operation was called on that were not
\* expired at that time
LiveBefore ==
    SelectSeq(lastOp.before.entries,
              LAMBDA e : lastOp.t - e.created_at <= TTL)

\* the last operation was a put that evicted for capacity: it inserted into
\* a cache that was full of entries that had not expired
EvictingPut ==
    /\ lastOp.op = "put"
    /\ lastOp.outcome = "inserted"
    /\ Len(LiveBefore) >= lastOp.before.max_entries

\* the entries the last put kept: all but the one it appended
KeptEntries == {cache.entries[j] : j \in 1..(Len(cache.entries) - 1)}

\* C14: capacity eviction removes the entries with the oldest created_at:
\* no removed entry was created (or refreshed) later than an entry kept.
C14_EvictsOldestCreated ==
    EvictingPut =>
        \A i \in 1..Len(LiveBefore) :
            LiveBefore[i] \notin KeptEntries =>
                \A k \in KeptEntries : LiveBefore[i].created_at <= k.created_at

\* the same, for caches in which no entry was refreshed in place: the
\* entries are then in the order of their created_at
C14_EvictsOldestInserted ==
    ( /\ EvictingPut
      /\ \A i, j \in 1..Len(lastOp.before.entries) :
            i <= j => lastOp.before.entries[i].created_at
                          <= lastOp.before.entries[j].created_at )
    => C14_EvictsOldestCreated

\* C15: the cache never holds more than max_entries entries.  A put that
\* inserts into a cache at capacity keeps no expired entry; when the
\* entries that have not expired still fill the cache it also drops a batch
\* from the head of the list, at least enough to make room, and then
\* appends the new entry.
C15_CapacityBound ==
    /\ Len(cache.entries) <= cache.max_entries
    /\ ( /\ lastOp.op = "put"
         /\ lastOp.outcome = "inserted"
         /\ Len(lastOp.before.entries) >= lastOp.before.max_entries )
       => \E n \in 0..Len(LiveBefore) :
             /\ cache.entries = Append(Drop(LiveBefore, n), PutEntry)
             /\ IF Len(LiveBefore) >= lastOp.before.max_entries
                THEN n >= Len(LiveBefore) - lastOp.before.max_entries + 1
                ELSE n = 0

C15_Witness ==
    /\ EvictingPut
    /\ lastOp.before.max_entries = MaxEntries
    /\ Len(lastOp.before.entries) = MaxEntries
    /\ Len(cache.entries) = MaxEntries - EvictBatch + 1

\* the entries a get leaves, apart from a hit count: the entries it was
\* called on, or those of them that had not expired
EntriesAfterGet(es) == es = lastOp.before.entries \/ es = LiveBefore

\* C16: a get that returns changes exactly one of total_hits and
\* total_misses, by one.  A hit raises total_hits and the hit count of one
\* entry, and returns that entry's response and query text with a
\* similarity score at or above the threshold; a miss raises total_misses,
\* returns nothing and raises no entry's hit count.
C16_GetCounters ==
    CompletedGet =>
        IF lastOp.outcome = "hit"
        THEN /\ cache.total_hits = lastOp.before.total_hits + 1
             /\ cache.total_misses = lastOp.before.total_misses
             /\ lastOp.similarity_score >= SEMANTIC_CACHE_THRESHOLD
             /\ \E i \in 1..Len(cache.entries) :
                   /\ cache.entries[i].query = lastOp.original_query
                   /\ cache.entries[i].response = lastOp.response
                   /\ cache.entries[i].metadata = lastOp.metadata
                   /\ cache.entries[i].hits >= 1
                   /\ EntriesAfterGet([cache.entries EXCEPT ![i].hits = @ - 1])
        ELSE /\ cache.total_misses = lastOp.before.total_misses + 1
             /\ cache.total_hits = lastOp.before.total_hits
             /\ lastOp.response = NoResponse
             /\ lastOp.original_query = 0
             /\ EntriesAfterGet(cache.entries)

C16_Witness ==
    /\ GetHit
    /\ lastOp.before.total_misses >= 1
    /\ lastOp.before.total_hits >= 1

----------------------------------------------------------------------------
(* Properties of the cache under overlapping callers *)

\* a get that entered a cache with matching index and entries read, at the
\* position its search returned, the entry whose vector it matched
ReadIsConsistent(i) ==
    ( /\ threads[i].pc = "done"
      /\ threads[i].op = "get"
      /\ threads[i].aligned0 )
    => /\ threads[i].outcome # "index_error"
       /\ threads[i].outcome = "hit" => threads[i].read = threads[i].vec

\* caller i completed a put that appended, without the capacity branch
PlainInsert(i) ==
    /\ threads[i].pc = "done"
    /\ threads[i].op = "put"
    /\ threads[i].outcome = "inserted"
    /\ threads[i].aligned0
    /\ ~threads[i].capacity

\* puts that all appended to a cache with room left it with one index
\* vector per entry, in the order of the entries, and with all their entries
PutsAreConsistent ==
    (\A i \in Threads : PlainInsert(i)) =>
        /\ Aligned(cache)
        /\ \A i \in Threads :
              \E k \in 1..Len(cache.entries) :
                  cache.entries[k].query = threads[i].query

\* C17: get and put calls that overlap do not corrupt the cache or a read:
\* a get never reads an entry list of another snapshot than the index it
\* searched, and overlapping puts neither lose an entry nor leave index
\* and entries out of step.
C17_OverlappingCallsAreSafe ==
    /\ \A i \in Threads : ReadIsConsistent(i)
    /\ PutsAreConsistent

====
